---- MODULE Spec2Model ----
(***************************************************************************)
(* Selector resolution and ranking engine of the loan-application scraper: *)
(* SelectorManager.rank_selectors, the selector synthesis and the resolver *)
(* AsyncLangGraphOrchestrator._try_selectors, together with the flow graph *)
(* nodes that call the resolver and the invoke_start loop that owns the    *)
(* session (already_clicked, visited_urls).                                *)
(*                                                                         *)
(* Python values: a str is a TLA+ string, a list is a sequence, a dict     *)
(* with a fixed set of keys is a function on its keys, a candidate dict    *)
(* (arbitrary optional keys, insertion ordered) is a sequence of           *)
(* <<key, value>> pairs, and None is the value None below.                 *)
(***************************************************************************)
EXTENDS Integers, Sequences, FiniteSets, TLC

None == "<None>"

\* Python truthiness of a str-or-None value ("if text", "if href", "not url")
Truthy(v) == v # None /\ v # ""

\* str(v) as an f-string renders it
Str(v) == IF v = None THEN "None" ELSE v

(***************************************************************************)
(* str operations used by the scorer and by urljoin                        *)
(***************************************************************************)
\* sub in s
Contains(s, sub) ==
    \E k \in 1..(Len(s) - Len(sub) + 1) : SubSeq(s, k, k + Len(sub) - 1) = sub

RECURSIVE CountFrom(_, _, _)
CountFrom(s, sub, k) ==
    IF k + Len(sub) - 1 > Len(s) THEN 0
    ELSE IF SubSeq(s, k, k + Len(sub) - 1) = sub
         THEN 1 + CountFrom(s, sub, k + Len(sub))
         ELSE CountFrom(s, sub, k + 1)

\* s.count(sub): non-overlapping occurrences, scanning from the left
Count(s, sub) == CountFrom(s, sub, 1)

IsSpace(c) == c \in {" ", "\t", "\n", "\r"}

RECURSIVE LStrip(_)
LStrip(s) ==
    IF Len(s) > 0 /\ IsSpace(SubSeq(s, 1, 1)) THEN LStrip(SubSeq(s, 2, Len(s))) ELSE s

RECURSIVE RStrip(_)
RStrip(s) ==
    IF Len(s) > 0 /\ IsSpace(SubSeq(s, Len(s), Len(s)))
    THEN RStrip(SubSeq(s, 1, Len(s) - 1)) ELSE s

\* s.strip()
Strip(s) == RStrip(LStrip(s))

\* the prefix test started one character late
StartsWithOffByOne(s, p) == Len(s) > Len(p) /\ SubSeq(s, 2, Len(p) + 1) = p

\* s.startswith(p)
StartsWith(s, p) == Len(s) >= Len(p) /\ SubSeq(s, 1, Len(p)) = p

LowerChar(c) ==
    CASE c = "A" -> "a" [] c = "B" -> "b" [] c = "C" -> "c" [] c = "D" -> "d"
      [] c = "E" -> "e" [] c = "F" -> "f" [] c = "G" -> "g" [] c = "H" -> "h"
      [] c = "I" -> "i" [] c = "J" -> "j" [] c = "K" -> "k" [] c = "L" -> "l"
      [] c = "M" -> "m" [] c = "N" -> "n" [] c = "O" -> "o" [] c = "P" -> "p"
      [] c = "Q" -> "q" [] c = "R" -> "r" [] c = "S" -> "s" [] c = "T" -> "t"
      [] c = "U" -> "u" [] c = "V" -> "v" [] c = "W" -> "w" [] c = "X" -> "x"
      [] c = "Y" -> "y" [] c = "Z" -> "z" [] OTHER -> c

RECURSIVE Lower(_)
\* s.lower()
Lower(s) ==
    IF Len(s) = 0 THEN s
    ELSE LowerChar(SubSeq(s, 1, 1)) \o Lower(SubSeq(s, 2, Len(s)))

(***************************************************************************)
(* dict operations on a candidate                                          *)
(***************************************************************************)
\* key in d
Has(d, key) == \E k \in 1..Len(d) : d[k][1] = key

\* d.get(key, default)
Get(d, key, default) ==
    IF Has(d, key) THEN d[CHOOSE k \in 1..Len(d) : d[k][1] = key][2] ELSE default

\* the dict {"selector": sel, "text": text} of one synthesized strategy
Strategy(sel, text) == << <<"selector", sel>>, <<"text", text>> >>

(***************************************************************************)
(* SelectorManager.rank_selectors                                          *)
(***************************************************************************)
\* score() calls sel.strip() first: a selector that is not a str raises
ScoreRaises(cand) == Get(cand, "selector", "") = None

\* "data-testid" in sel or "data-test" in sel
TestIdRow(sel) == Contains(sel, "data-testid") \/ Contains(sel, "data-test")

\* the test-specific attributes row of score()
test_id_delta(sel) == IF TestIdRow(sel) THEN 90 ELSE 0

\* text and f'text()="{text}"' in sel
ExactTextRow(sel, text) == Truthy(text) /\ Contains(sel, "text()=\"" \o Str(text) \o "\"")

\* text and "contains(text()" in sel
SubstringTextRow(sel, text) == Truthy(text) /\ Contains(sel, "contains(text()")

\* both text rows applied, each on its own
TextDeltaBoth(sel, text) ==
    (IF ExactTextRow(sel, text) THEN 45 ELSE 0)
      + (IF SubstringTextRow(sel, text) THEN 35 ELSE 0)

\* the text content rows of score(): "if ... s += 45 elif ... s += 35"
text_delta(sel, text) ==
    IF ExactTextRow(sel, text) THEN 45
    ELSE IF SubstringTextRow(sel, text) THEN 35 ELSE 0

\* the rows of score() other than the text content rows
row_deltas(sel, text) ==
    LET low  == Lower(sel)
        dots == Count(sel, ".")
    IN  (IF StartsWith(Strip(sel), "#") THEN 100 ELSE 0)
      + test_id_delta(sel)
      + (IF Contains(sel, "name=") \/ Contains(sel, "for=") THEN 80 ELSE 0)
      + (IF Contains(sel, "aria-label") THEN 70 ELSE 0)
      + (IF Contains(sel, "[role=") THEN 65 ELSE 0)
      + (IF Contains(sel, "data-") THEN 60 ELSE 0)
      + (IF Truthy(text) /\ (Contains(low, "button") \/ Contains(sel, "a[")
                             \/ Contains(low, "link"))
         THEN 55 ELSE 0)
      + (IF dots = 1 THEN 50 ELSE IF dots > 1 THEN 40 ELSE 0)
      + (IF Contains(sel, "nth-child") \/ Contains(sel, "nth-of-type") THEN 30 ELSE 0)
      - (IF Len(sel) > 150 THEN 20 ELSE 0)
      - (IF Count(sel, "/") > 5 THEN 15 ELSE 0)
      - (IF Count(sel, " > ") > 3 THEN 15 ELSE 0)

score(cand) ==
    LET sel  == Get(cand, "selector", "")
        text == Get(cand, "text", "")
    IN  row_deltas(sel, text) + text_delta(sel, text)

\* the sort with candidates of equal score in reverse input order
rank_selectors_unstable(candidates) ==
    LET n == Len(candidates)
        Sorted(sc) ==
            LET before(a, b) == sc[a] > sc[b] \/ (sc[a] = sc[b] /\ a > b)
                pos(k) == 1 + Cardinality({m \in 1..n : before(m, k)})
            IN  [p \in 1..n |-> candidates[CHOOSE k \in 1..n : pos(k) = p]]
    IN  CHOOSE r \in {Sorted(sc) : sc \in {[k \in 1..n |-> score(candidates[k])]}} : TRUE

\* the sort with the key score(c) instead of -score(c): ascending score
rank_selectors_ascending(candidates) ==
    LET n == Len(candidates)
        Sorted(sc) ==
            LET before(a, b) == sc[a] < sc[b] \/ (sc[a] = sc[b] /\ a < b)
                pos(k) == 1 + Cardinality({m \in 1..n : before(m, k)})
            IN  [p \in 1..n |-> candidates[CHOOSE k \in 1..n : pos(k) = p]]
    IN  CHOOSE r \in {Sorted(sc) : sc \in {[k \in 1..n |-> score(candidates[k])]}} : TRUE

\* sorted(candidates, key=lambda c: -score(c)): stable, descending score.
\* The key of every candidate is computed once (sc), as sorted() does.
rank_selectors(candidates) ==
    LET n == Len(candidates)
        Sorted(sc) ==
            LET before(a, b) == sc[a] > sc[b] \/ (sc[a] = sc[b] /\ a < b)
                pos(k) == 1 + Cardinality({m \in 1..n : before(m, k)})
            IN  [p \in 1..n |-> candidates[CHOOSE k \in 1..n : pos(k) = p]]
    IN  CHOOSE r \in {Sorted(sc) : sc \in {[k \in 1..n |-> score(candidates[k])]}} : TRUE

\* rank_selectors raises when score() raises on one of the candidates
RankRaises(candidates) == \E k \in 1..Len(candidates) : ScoreRaises(candidates[k])

(***************************************************************************)
(* Selector synthesis inside _try_selectors (the body of "for s in         *)
(* ranked_selectors" up to the second ranking)                             *)
(***************************************************************************)
\* f'[{attr}="{value}"]'
AttrSelector(attr, value) == "[" \o attr \o "=\"" \o Str(value) \o "\"]"

\* one [attr="value"] strategy per (attr, value) item of f
ItemStrategies(f, text) ==
    [k \in 1..Len(f) |-> Strategy(AttrSelector(f[k][1], f[k][2]), text)]

\* for attr, value in s.items(): if attr in ["data-testid", "data-test", "data-qa"]
TestStrategies(s, text) ==
    ItemStrategies(SelectSeq(s, LAMBDA kv : kv[1] \in {"data-testid", "data-test", "data-qa"}),
                   text)

\* for attr, value in s.items(): if attr.startswith("data-")
DataStrategies(s, text) ==
    ItemStrategies(SelectSeq(s, LAMBDA kv : StartsWith(kv[1], "data-")), text)

\* for attr in attrs: if attr in s: append [attr="s[attr]"]
NamedStrategies(s, attrs, text) ==
    LET f == SelectSeq(attrs, LAMBDA a : Has(s, a))
    IN  [k \in 1..Len(f) |-> Strategy(AttrSelector(f[k], Get(s, f[k], None)), text)]

\* the text strategies without the CSS has-text block
TextStrategiesXPathOnly(text) ==
    << Strategy("//button[contains(text(),\"" \o text \o "\")]", text),
       Strategy("//a[contains(text(),\"" \o text \o "\")]", text),
       Strategy("//input[@value=\"" \o text \o "\"]", text),
       Strategy("//*[text()=\"" \o text \o "\"]", text),
       Strategy("//*[contains(text(),\"" \o text \o "\")]", text),
       Strategy("//*[normalize-space()=\"" \o text \o "\"]", text),
       Strategy("[title=\"" \o text \o "\"]", text) >>

\* for text: the strategies built from the label text, in source order
TextStrategies(text) ==
    << Strategy("//button[contains(text(),\"" \o text \o "\")]", text),
       Strategy("//a[contains(text(),\"" \o text \o "\")]", text),
       Strategy("//input[@value=\"" \o text \o "\"]", text),
       Strategy("//*[text()=\"" \o text \o "\"]", text),
       Strategy("a:has-text(\"" \o text \o "\")", text),
       Strategy("button:has-text(\"" \o text \o "\")", text),
       Strategy("[role=\"button\"]:has-text(\"" \o text \o "\")", text),
       Strategy("//*[contains(text(),\"" \o text \o "\")]", text),
       Strategy("//*[normalize-space()=\"" \o text \o "\"]", text),
       Strategy("[title=\"" \o text \o "\"]", text) >>

\* the synthesis with the text strategies added whether or not there is a text
element_selectors_unguarded(s, llm_selectors) ==
    LET text     == Get(s, "text", "")
        base_sel == Get(s, "selector", None)
    IN  (IF Truthy(text) THEN llm_selectors ELSE <<>>)
        \o (IF Truthy(base_sel) THEN <<Strategy(base_sel, text)>> ELSE <<>>)
        \o TextStrategies(Str(text))
        \o TestStrategies(s, text)
        \o NamedStrategies(s, <<"aria-label", "role", "title">>, text)
        \o NamedStrategies(s, <<"name", "for", "placeholder">>, text)
        \o DataStrategies(s, text)

\* the synthesis that gives up on a candidate with a text when the LLM helper
\* contributed nothing
element_selectors_needs_llm(s, llm_selectors) ==
    LET text     == Get(s, "text", "")
        base_sel == Get(s, "selector", None)
    IN  IF Truthy(text) /\ llm_selectors = <<>> THEN <<>>
        ELSE (IF Truthy(text) THEN llm_selectors ELSE <<>>)
             \o (IF Truthy(base_sel) THEN <<Strategy(base_sel, text)>> ELSE <<>>)
             \o (IF Truthy(text) THEN TextStrategies(text) ELSE <<>>)
             \o TestStrategies(s, text)
             \o NamedStrategies(s, <<"aria-label", "role", "title">>, text)
             \o NamedStrategies(s, <<"name", "for", "placeholder">>, text)
             \o DataStrategies(s, text)
             \o (IF Truthy(text) /\ Has(s, "role")
                 THEN <<Strategy("[role=\"" \o Str(Get(s, "role", None)) \o "\"][text()=\""
                                 \o text \o "\"]", text)>>
                 ELSE <<>>)

\* element_selectors of one ranked candidate s, given what _get_llm_selectors returned
element_selectors(s, llm_selectors) ==
    LET text     == Get(s, "text", "")
        base_sel == Get(s, "selector", None)
    IN  (IF Truthy(text) THEN llm_selectors ELSE <<>>)
        \o (IF Truthy(base_sel) THEN <<Strategy(base_sel, text)>> ELSE <<>>)
        \o (IF Truthy(text) THEN TextStrategies(text) ELSE <<>>)
        \o TestStrategies(s, text)
        \o NamedStrategies(s, <<"aria-label", "role", "title">>, text)
        \o NamedStrategies(s, <<"name", "for", "placeholder">>, text)
        \o DataStrategies(s, text)
        \o (IF Truthy(text) /\ Has(s, "role")
            THEN <<Strategy("[role=\"" \o Str(Get(s, "role", None)) \o "\"][text()=\""
                            \o text \o "\"]", text)>>
            ELSE <<>>)

(***************************************************************************)
(* _get_llm_selectors                                                      *)
(***************************************************************************)
\* the formatted_selectors built from the parsed LLM answer (a list of
\* records with fields selector and type)
formatted_selectors(selectors, button_text) ==
    [k \in 1..Len(selectors) |->
        << <<"selector", selectors[k].selector>>, <<"text", button_text>>,
           <<"source", "llm">>, <<"selector_type", selectors[k].type>> >>]

(***************************************************************************)
(* urllib.parse.urljoin for the href shapes of Hrefs: an href with a       *)
(* scheme is returned as it is, a relative path replaces the last path     *)
(* segment of the base                                                     *)
(***************************************************************************)
LastSlash(s) == CHOOSE k \in 0..Len(s) :
    /\ (k > 0 => SubSeq(s, k, k) = "/")
    /\ \A m \in (k + 1)..Len(s) : SubSeq(s, m, m) # "/"

urljoin(base, href) ==
    IF Contains(href, "://") THEN href
    ELSE SubSeq(base, 1, LastSlash(base)) \o href

(***************************************************************************)
(* dict and list helpers for the graph state                               *)
(***************************************************************************)
\* d.get(k, default) on a state dict
GetK(d, k, default) == IF k \in DOMAIN d THEN d[k] ELSE default

\* d[k] = v
SetK(d, k, v) == (k :> v) @@ d

\* set(list)
ToSet(list) == {list[k] : k \in 1..Len(list)}

\* utils.parser.html_to_text on the markup PageContent produces: the tags
\* are dropped and the text between them is kept
html_to_text(html) ==
    IF Len(html) >= 7 /\ SubSeq(html, 1, 3) = "<p>" THEN SubSeq(html, 4, Len(html) - 4)
    ELSE html

(***************************************************************************)
(* Bounds and the inputs the environment (LLM, browser, pages) draws from  *)
(***************************************************************************)
\* graph invocations of one invoke_start run
MaxInvocations == 2

\* executions of intermediate_page_node followed in one invocation of the
\* human-in-the-loop flow
MaxHops == 3

UrlA == "http://h/a"
UrlC == "http://h/d/c"
PageUrls == {UrlA, UrlC}

\* page.content() of the page at url
PageContent(url) == "<p>" \o url \o "</p>"

\* element.get_attribute("href")
Hrefs == {None, "c", "d/c", UrlA}

cId   == << <<"selector", "#apply-now">>, <<"text", "Go">> >>
cXp   == << <<"selector", "//a[contains(text(),\"Go\")]">>, <<"text", "Go">> >>
cText == << <<"text", "Go">> >>
cAttr == << <<"selector", ".cta">>, <<"data-testid", "go">>, <<"role", "button">> >>
cNull == << <<"selector", None>> >>
cNone == << >>
cPlain == << <<"selector", "#apply-now">> >>

\* the candidate lists an LLM answer can carry
CandidateLists ==
    { << >>, <<cId>>, <<cText>>, <<cNone, cId>>, <<cXp, cPlain>>, <<cAttr, cNone>>,
      <<cNull>> }

\* the selectors that match an element on the pages of the run; a probe of
\* any other selector times out
Live == { "#apply-now", "//a[contains(text(),\"Go\")]" }

\* what groq.raw_completion can do: raise / answer unparsably, or answer
\* with a JSON array of {selector, type}
LlmReplies ==
    { "raise",
      << [selector |-> "#llm-go", type |-> "css"] >>,
      << [selector |-> None, type |-> "css"] >> }

(***************************************************************************)
(* State                                                                   *)
(***************************************************************************)
VARIABLES
    state,            \* invoke_start: the run's state dict
    ipc,              \* invoke_start: "invoke" | "graph" | "returned" | "raised"
    invocations,      \* invoke_start: graph.ainvoke calls made so far
    chan,             \* graph: the channel values of the running invocation
    node,             \* graph: the node to run next, "none" outside an invocation
    nstate,           \* the state dict handed to the running node and to _try_selectors
    node_input,       \* the candidate list the running node got from the LLM
    emitted,          \* graph: the update the node that just returned handed to the
                      \* graph, until the next node starts
    gen,              \* generate_selector_from_attrs: arguments, position, returned value
    human_in_loop,    \* orchestrator.human_in_loop, set by the constructor
    hops,             \* history: what intermediate_page_node has done so far
    selector_cache,   \* orchestrator.selector_cache: label text -> formatted selectors
    asked,            \* history: label text -> what the first _get_llm_selectors call returned
    request,          \* history: the latest _get_llm_selectors call of this _try_selectors call
    pc,               \* _try_selectors: position
    url,              \* _try_selectors: argument url
    selectors,        \* _try_selectors: argument selectors, then the filtered list
    already_clicked,  \* _try_selectors: set(state.get("already_clicked", []))
    visited_urls,     \* _try_selectors: set(state.get("visited_urls", []))
    ranked_selectors, \* _try_selectors: rank_selectors(selectors)
    i,                \* _try_selectors: index of s in ranked_selectors
    sorted_selectors, \* _try_selectors: the ranked strategies of candidate i
    j,                \* _try_selectors: index of sel_dict in sorted_selectors
    page_url,         \* browser: page.url
    browser,          \* browser: "none" | "open" | "closed"
    releases,         \* browser: release operations applied to this call's browser session
    result,           \* _try_selectors: the returned value (None or the outcome dict)
    loads,            \* history: page.goto calls made by this call
    probes,           \* history: wait_for_selector calls made by this call
    clicks,           \* history: element.click calls made by this call
    start,            \* history: the state dict as it was when the call started
    last              \* history: what the latest selector attempt of this call did

resolver == <<pc, url, selectors, already_clicked, visited_urls, ranked_selectors, i,
              sorted_selectors, j, page_url, browser, releases, result, loads, probes,
              clicks, start, last>>
graph    == <<chan, node, node_input>>
run      == <<state, ipc, invocations>>
vars     == <<state, ipc, invocations, chan, node, nstate, node_input, emitted, gen,
              human_in_loop, hops,
              selector_cache, asked, request, pc, url, selectors, already_clicked,
              visited_urls, ranked_selectors, i, sorted_selectors, j, page_url, browser,
              releases, result, loads, probes, clicks, start, last>>
helper   == <<selector_cache, asked, request>>
kept     == <<helper, emitted, gen, human_in_loop, hops>>

counts == <<loads, probes, clicks>>

NoAttempt == [kind |-> "none", sel |-> None, href |-> None, full_href |-> None,
              target |-> None, found |-> FALSE, is_visible |-> FALSE,
              is_enabled |-> FALSE, bbox |-> FALSE,
              pre |-> None, post |-> None, clicked |-> FALSE, wait |-> "none"]

Attempt(kind, sel, href, pre, post, clicked) ==
    [kind |-> kind, sel |-> sel, href |-> href,
     full_href |-> IF Truthy(href) THEN urljoin(url, href) ELSE None,
     target |-> IF Truthy(href) THEN urljoin(page_url, href) ELSE None,
     found |-> FALSE, is_visible |-> FALSE, is_enabled |-> FALSE, bbox |-> FALSE,
     pre |-> pre, post |-> post, clicked |-> clicked, wait |-> "none"]

\* an attempt whose probe found an element, with what is_visible(),
\* is_enabled() and bounding_box() (a box or None) answered
Validated(attempt, is_visible, is_enabled, bbox) ==
    [attempt EXCEPT !.found = TRUE, !.is_visible = is_visible,
                    !.is_enabled = is_enabled, !.bbox = bbox]

\* what page.wait_for_load_state("networkidle", timeout=5000) can do after a
\* click: return when the network is idle, or raise on its timeout
WaitOutcomes == {"idle", "timeout"}

\* an attempt that got as far as the wait after the click
Waited(attempt, wait) == [attempt EXCEPT !.wait = wait]

\* the wait without its try block: its timeout is an error of the selector
WaitPassesWhenIdle(wait) == wait = "idle"

\* try: await page.wait_for_load_state(...) except Exception: pass
WaitPasses(wait) == TRUE

\* generate_selector_from_attrs is not in a call: nothing in the run calls it
NoGen == [at |-> "idle", tag |-> None, attrs |-> << >>, selector |-> None]

\* no _get_llm_selectors call made yet
NoRequest ==
    [text |-> None, result |-> << >>, called |-> FALSE, failed |-> FALSE,
     again |-> FALSE, cached |-> FALSE, first |-> << >>]

\* the record of the call _get_llm_selectors(html, text) under the LLM
\* behaviour reply: what it returned, whether it called the LLM, whether that
\* call failed, whether the text was requested or cached before, and what
\* the first request for the text returned
Requested(text, reply, returned) ==
    [text   |-> text,
     result |-> returned,
     called |-> text \notin DOMAIN selector_cache,
     failed |-> text \notin DOMAIN selector_cache /\ reply = "raise",
     again  |-> text \in DOMAIN asked,
     cached |-> text \in DOMAIN selector_cache,
     first  |-> IF text \in DOMAIN asked THEN asked[text] ELSE returned]

\* the value a call returns when it has no outcome (Python None)
NoOutcome == << >>

(***************************************************************************)
(* invoke_start: the initial state dict                                    *)
(***************************************************************************)
\* the keys of GraphState that the flow reads; writes to any other key of a
\* node's return value or of the input are dropped by the graph
ChannelKeys == {"url", "snippet", "classification", "form_llm",
                "already_clicked", "visited_urls", "intermediate_visits"}

\* intermediate_page_node has not run: executed counts its executions in the
\* invocation under way, attempts the selection attempts it has completed in
\* the run, declined is the page on which the user last gave no usable choice
NoHops == [executed |-> 0, attempts |-> 0, declined |-> None]

InitialState(u, html) ==
    [url |-> u, html |-> html, snippet |-> html_to_text(html),
     already_clicked |-> << >>, visited_urls |-> <<u>>, intermediate_visits |-> 0]

\* AsyncLangGraphOrchestrator(groq, human_in_loop=flag), then invoke_start
\* builds the state dict
Constructed(flag) ==
    /\ \E u \in {UrlA, ""}, html \in {"", PageContent(UrlA)} : state = InitialState(u, html)
    /\ ipc = "invoke"
    /\ invocations = 0
    /\ chan = << >>
    /\ node = "none"
    /\ selector_cache = << >>
    /\ asked = << >>
    /\ request = NoRequest
    /\ emitted = << >>
    /\ gen = NoGen
    /\ human_in_loop = flag
    /\ hops = NoHops
    /\ nstate = << >>
    /\ node_input = << >>
    /\ pc = "idle"
    /\ url = None
    /\ selectors = << >>
    /\ already_clicked = {}
    /\ visited_urls = {}
    /\ ranked_selectors = << >>
    /\ i = 0
    /\ sorted_selectors = << >>
    /\ j = 0
    /\ page_url = None
    /\ browser = "none"
    /\ releases = 0
    /\ result = NoOutcome
    /\ loads = 0
    /\ probes = 0
    /\ clicks = 0
    /\ start = << >>
    /\ last = NoAttempt

\* the orchestrator as the scraper builds it without --human
Init == Constructed(FALSE)

\* the orchestrator as the scraper builds it with --human
HumanInit == Constructed(TRUE)

(***************************************************************************)
(* _try_selectors                                                          *)
(***************************************************************************)
\* a node calls self._try_selectors(u, cands, state)
Call(u, cands) ==
    /\ pc' = "entry"
    /\ url' = u
    /\ selectors' = cands
    /\ node_input' = cands
    /\ nstate' = chan
    /\ start' = chan
    /\ last' = NoAttempt
    /\ result' = NoOutcome
    /\ browser' = "none"
    /\ releases' = 0
    /\ loads' = 0
    /\ probes' = 0
    /\ clicks' = 0
    /\ page_url' = None
    /\ already_clicked' = {}
    /\ visited_urls' = {}
    /\ ranked_selectors' = << >>
    /\ sorted_selectors' = << >>
    /\ i' = 0
    /\ j' = 0

\* what an action of the call leaves alone outside the call's frame
outside == <<run, graph, kept>>
\* the parts of the frame
sets    == <<selectors, already_clicked, visited_urls>>
outer   == <<ranked_selectors, i>>
inner   == <<sorted_selectors, j>>
session == <<browser, releases>>

\* "return value" from inside "async with async_playwright()": the context
\* manager exit stops playwright, which tears the browser session down
ReturnInContext(value) ==
    /\ pc' = "returned"
    /\ result' = value
    /\ browser' = "closed"
    /\ releases' = releases + 1

\* "await browser.close(); return None" inside the context: the explicit
\* close and then the context manager exit
CloseAndReturnNone ==
    /\ pc' = "returned"
    /\ result' = NoOutcome
    /\ browser' = "closed"
    /\ releases' = releases + 2

\* an exception leaves the "async with" block and reaches the caller
RaiseInContext ==
    /\ pc' = "raised"
    /\ result' = NoOutcome
    /\ browser' = IF browser = "open" THEN "closed" ELSE browser
    /\ releases' = IF browser = "open" THEN releases + 1 ELSE releases

\* the guard without its url half: "if not selectors"
InputEmptySelectorsOnly(u, cands) == cands = << >>

\* not url or not selectors
InputEmpty(u, cands) == ~Truthy(u) \/ cands = << >>

\* if not url or not selectors: return None
EmptyInput ==
    /\ pc = "entry"
    /\ InputEmpty(url, selectors)
    /\ pc' = "returned"
    /\ result' = NoOutcome
    /\ UNCHANGED <<url, start, sets, outer, inner, page_url, session, counts, last, nstate>>
    /\ UNCHANGED outside

\* the candidate list taken as it came, without the filter
NotClickedUnfiltered(cands, clicked) == cands

\* [s for s in selectors if s.get("selector") not in already_clicked]
NotClicked(cands, clicked) ==
    SelectSeq(cands, LAMBDA s : Get(s, "selector", None) \notin clicked)

\* the snapshot sets are taken, the filter leaves nothing: return None
ExhaustedByDedup ==
    /\ pc = "entry"
    /\ ~InputEmpty(url, selectors)
    /\ LET clicked == ToSet(GetK(nstate, "already_clicked", << >>))
       IN  /\ NotClicked(selectors, clicked) = << >>
           /\ already_clicked' = clicked
           /\ visited_urls' = ToSet(GetK(nstate, "visited_urls", << >>))
           /\ selectors' = << >>
    /\ pc' = "returned"
    /\ result' = NoOutcome
    /\ UNCHANGED <<url, start, outer, inner, page_url, session, counts, last, nstate>>
    /\ UNCHANGED outside

\* the filter leaves candidates: enter "async with async_playwright()"
OpenSession ==
    /\ pc = "entry"
    /\ ~InputEmpty(url, selectors)
    /\ LET clicked == ToSet(GetK(nstate, "already_clicked", << >>))
       IN  /\ NotClicked(selectors, clicked) # << >>
           /\ already_clicked' = clicked
           /\ visited_urls' = ToSet(GetK(nstate, "visited_urls", << >>))
           /\ selectors' = NotClicked(selectors, clicked)
    /\ pc' = "launch"
    /\ UNCHANGED <<url, start, outer, inner, page_url, session, result, counts, last,
                   nstate>>
    /\ UNCHANGED outside

\* browser = await p.chromium.launch(...); new_context; new_page
Launch ==
    /\ pc = "launch"
    /\ browser' = "open"
    /\ pc' = "load"
    /\ UNCHANGED <<url, start, sets, outer, inner, page_url, releases, result, counts,
                   last, nstate>>
    /\ UNCHANGED outside

\* chromium.launch raises: nothing was opened, the exception reaches the caller
LaunchRaises ==
    /\ pc = "launch"
    /\ RaiseInContext
    /\ UNCHANGED <<url, start, sets, outer, inner, page_url, counts, last, nstate>>
    /\ UNCHANGED outside

\* page.goto(url, wait_until="networkidle") succeeds; the page may have redirected
LoadPrimary ==
    /\ pc = "load"
    /\ \E u \in PageUrls : page_url' = u
    /\ loads' = loads + 1
    /\ pc' = "rank"
    /\ UNCHANGED <<url, start, sets, outer, inner, session, result, probes, clicks, last,
                   nstate>>
    /\ UNCHANGED outside

\* the failure of the network-idle load ending the call, without a second load
LoadPrimaryFailsReturns ==
    /\ pc = "load"
    /\ loads' = loads + 1
    /\ CloseAndReturnNone
    /\ UNCHANGED <<url, start, sets, outer, inner, page_url, probes, clicks, last, nstate>>
    /\ UNCHANGED outside

\* the network-idle load raises: fall back to domcontentloaded
LoadPrimaryFails ==
    /\ pc = "load"
    /\ loads' = loads + 1
    /\ pc' = "fallback"
    /\ UNCHANGED <<url, start, sets, outer, inner, page_url, session, result, probes,
                   clicks, last, nstate>>
    /\ UNCHANGED outside

\* page.goto(url, wait_until="domcontentloaded") and the 5 s sleep succeed
LoadFallback ==
    /\ pc = "fallback"
    /\ \E u \in PageUrls : page_url' = u
    /\ loads' = loads + 1
    /\ pc' = "rank"
    /\ UNCHANGED <<url, start, sets, outer, inner, session, result, probes, clicks, last,
                   nstate>>
    /\ UNCHANGED outside

\* the failure of the fallback load swallowed, the call going on to the ranking
LoadFailsGoesOn ==
    /\ pc = "fallback"
    /\ loads' = loads + 1
    /\ pc' = "rank"
    /\ UNCHANGED <<url, start, sets, outer, inner, page_url, session, result, probes,
                   clicks, last, nstate>>
    /\ UNCHANGED outside

\* the fallback load raises too: except Exception: await browser.close(); return None
LoadFails ==
    /\ pc = "fallback"
    /\ loads' = loads + 1
    /\ CloseAndReturnNone
    /\ UNCHANGED <<url, start, sets, outer, inner, page_url, probes, clicks, last, nstate>>
    /\ UNCHANGED outside

\* html = await page.content(); ranked_selectors = rank_selectors(selectors)
Rank ==
    /\ pc = "rank"
    /\ ~RankRaises(selectors)
    /\ ranked_selectors' = rank_selectors(selectors)
    /\ i' = 1
    /\ pc' = "expand"
    /\ UNCHANGED <<url, start, sets, inner, page_url, session, result, counts, last,
                   nstate>>
    /\ UNCHANGED outside

\* page.content() raises, or score() raises on a selector that is not a str:
\* neither is inside a try block
RankRaisesOut ==
    /\ pc = "rank"
    /\ RaiseInContext
    /\ UNCHANGED <<url, start, sets, outer, inner, page_url, counts, last, nstate>>
    /\ UNCHANGED outside

\* _get_llm_selectors without the look-up in the cache
llm_selectors_uncached(text, reply) ==
    IF reply = "raise" THEN << >>
    ELSE formatted_selectors(reply, text)

\* what _get_llm_selectors(html, text) returns for an LLM behaviour reply
llm_selectors(text, reply) ==
    IF text \in DOMAIN selector_cache THEN selector_cache[text]
    ELSE IF reply = "raise" THEN << >>
    ELSE formatted_selectors(reply, text)

\* self.selector_cache after _get_llm_selectors(html, text)
cache_after(text, reply) ==
    IF text \in DOMAIN selector_cache \/ reply = "raise" THEN selector_cache
    ELSE (text :> formatted_selectors(reply, text)) @@ selector_cache

\* for s in ranked_selectors: build element_selectors and rank them
Expand ==
    /\ pc = "expand"
    /\ i <= Len(ranked_selectors)
    /\ LET s    == ranked_selectors[i]
           text == Get(s, "text", "")
       IN  \E reply \in (IF Truthy(text) /\ text \notin DOMAIN selector_cache
                         THEN LlmReplies ELSE {"raise"}) :
           \E es \in {element_selectors(s, IF Truthy(text) THEN llm_selectors(text, reply)
                                            ELSE << >>)} :
                 /\ selector_cache' = IF Truthy(text) THEN cache_after(text, reply)
                                      ELSE selector_cache
                 /\ IF Truthy(text)
                    THEN /\ request' = Requested(text, reply, llm_selectors(text, reply))
                         /\ asked' = IF text \in DOMAIN asked THEN asked
                                     ELSE (text :> llm_selectors(text, reply)) @@ asked
                    ELSE UNCHANGED <<asked, request>>
                 /\ IF RankRaises(es)
                    THEN /\ RaiseInContext
                         /\ UNCHANGED inner
                    ELSE /\ sorted_selectors' = rank_selectors(es)
                         /\ j' = 1
                         /\ pc' = "attempt"
                         /\ UNCHANGED <<session, result>>
    /\ UNCHANGED <<url, start, sets, outer, page_url, counts, last, nstate>>
    /\ UNCHANGED <<run, graph, emitted, gen, human_in_loop, hops>>

\* the strategies of candidate i are used up: next candidate
NextCandidate ==
    /\ pc = "attempt"
    /\ j > Len(sorted_selectors)
    /\ i' = i + 1
    /\ pc' = "expand"
    /\ UNCHANGED <<url, start, sets, ranked_selectors, inner, page_url, session, result,
                   counts, last, nstate>>
    /\ UNCHANGED outside

\* the outer loop ends: await browser.close(); return None
Exhausted ==
    /\ pc = "expand"
    /\ i > Len(ranked_selectors)
    /\ CloseAndReturnNone
    /\ UNCHANGED <<url, start, sets, outer, inner, page_url, counts, last, nstate>>
    /\ UNCHANGED outside

\* sel = sel_dict["selector"] of the strategy under trial
sel == Get(sorted_selectors[j], "selector", None)

Trying == pc = "attempt" /\ j <= Len(sorted_selectors)

\* the loop without its "if sel in already_clicked" test
IsClickedNever(s) == FALSE

\* the gate without its bounding-box part
ActionableWithoutBox(is_visible, is_enabled, bbox) == is_visible /\ is_enabled

\* if is_visible and is_enabled and bbox
Actionable(is_visible, is_enabled, bbox) == is_visible /\ is_enabled /\ bbox

\* if sel in already_clicked
IsClicked(s) == s \in already_clicked

\* the href guard: full_href = urljoin(url, href) is in visited_urls
TargetVisited(href) == Truthy(href) /\ urljoin(url, href) \in visited_urls

\* every click that went through taken for a navigation
NavigatedAlways(pre_click_url, nav_url) == TRUE

\* the URL comparison after a click: nav_url != pre_click_url
Navigated(pre_click_url, nav_url) == nav_url # pre_click_url

\* the success branch without its two appends and its current_url write
RecordedNothing(st, clicked_sel, nav_url) == st

\* the success branch writing the new location to "url" as well
RecordedWithUrl(st, clicked_sel, nav_url) ==
    LET s1 == SetK(st, "already_clicked",
                   Append(GetK(st, "already_clicked", << >>), clicked_sel))
        s2 == SetK(s1, "visited_urls", Append(GetK(s1, "visited_urls", << >>), nav_url))
    IN  SetK(SetK(s2, "current_url", nav_url), "url", nav_url)

\* the state dict after the success branch has recorded the click
Recorded(st, clicked_sel, nav_url) ==
    LET s1 == SetK(st, "already_clicked",
                   Append(GetK(st, "already_clicked", << >>), clicked_sel))
        s2 == SetK(s1, "visited_urls", Append(GetK(s1, "visited_urls", << >>), nav_url))
    IN  SetK(s2, "current_url", nav_url)

\* the click recorded as soon as it went through, before the URL comparison
AfterClickEager(st, clicked_sel, pre_click_url, nav_url, content_ok) ==
    LET s1 == SetK(st, "already_clicked",
                   Append(GetK(st, "already_clicked", << >>), clicked_sel))
    IN  SetK(s1, "visited_urls", Append(GetK(s1, "visited_urls", << >>), nav_url))

\* the state dict after a click that went through: recorded only in the
\* branch "if nav_url != pre_click_url", after page.content() returned
AfterClick(st, clicked_sel, pre_click_url, nav_url, content_ok) ==
    IF Navigated(pre_click_url, nav_url) /\ content_ok
    THEN Recorded(st, clicked_sel, nav_url) ELSE st

\* the outcome dict of a successful navigation
Outcome(nav_url, html, used) ==
    [url |-> nav_url, html |-> html, selector |-> used,
     browser |-> "browser", page |-> "page"]

\* an attempt that ends in "continue" or falls through to the end of the loop body
Continue(attempt, new_page_url, probed, clicked) ==
    /\ last' = attempt
    /\ page_url' = new_page_url
    /\ probes' = probes + probed
    /\ clicks' = clicks + clicked
    /\ j' = j + 1
    /\ UNCHANGED <<pc, url, start, sets, outer, sorted_selectors, session, result, loads>>
    /\ UNCHANGED outside

\* if sel in already_clicked: continue
SkipClicked ==
    /\ Trying
    /\ IsClicked(sel)
    /\ Continue(Attempt("skip_clicked", sel, None, None, None, FALSE), page_url, 0, 0)
    /\ UNCHANGED nstate

\* wait_for_selector times out or rejects the selector, it yields no element,
\* or one of is_visible / is_enabled / bounding_box / get_attribute raises
ProbeFails ==
    /\ Trying
    /\ ~IsClicked(sel)
    /\ Continue(Attempt("probe_failed", sel, None, None, None, FALSE), page_url, 1, 0)
    /\ UNCHANGED nstate

\* the element is found but "is_visible and is_enabled and bbox" is false
NotActionable ==
    /\ Trying
    /\ ~IsClicked(sel)
    /\ sel \in Live
    /\ \E is_visible \in BOOLEAN, is_enabled \in BOOLEAN, bbox \in BOOLEAN :
          /\ ~Actionable(is_visible, is_enabled, bbox)
          /\ Continue(Validated(Attempt("not_actionable", sel, None, None, None, FALSE),
                                is_visible, is_enabled, bbox),
                      page_url, 1, 0)
    /\ UNCHANGED nstate

\* actionable, but its href resolves to a visited URL: continue without a click
SkipVisited ==
    /\ Trying
    /\ ~IsClicked(sel)
    /\ sel \in Live
    /\ \E href \in Hrefs, is_visible \in BOOLEAN, is_enabled \in BOOLEAN, bbox \in BOOLEAN :
          /\ Actionable(is_visible, is_enabled, bbox)
          /\ TargetVisited(href)
          /\ Continue(Validated(Attempt("skip_visited", sel, href, None, None, FALSE),
                                is_visible, is_enabled, bbox),
                      page_url, 1, 0)
    /\ UNCHANGED nstate

\* element.click raises (the page may or may not have started to navigate),
\* or an exception of the wait after it gets out of the wait's own try block:
\* except Exception: continue
ClickRaises ==
    /\ Trying
    /\ ~IsClicked(sel)
    /\ sel \in Live
    /\ \E href \in Hrefs, post \in PageUrls, is_visible \in BOOLEAN, is_enabled \in BOOLEAN, bbox \in BOOLEAN :
       \E wait \in {"none"} \cup {w \in WaitOutcomes : ~WaitPasses(w)} :
          /\ Actionable(is_visible, is_enabled, bbox)
          /\ ~TargetVisited(href)
          /\ Continue(Waited(Validated(Attempt(IF wait = "none" THEN "click_failed"
                                                ELSE "wait_failed",
                                               sel, href, page_url, post, TRUE),
                                       is_visible, is_enabled, bbox), wait),
                      post, 1, 1)
    /\ UNCHANGED nstate

\* the click goes through, the wait returns or times out, and page.url is
\* what it was before
NoNavigation ==
    /\ Trying
    /\ ~IsClicked(sel)
    /\ sel \in Live
    /\ \E href \in Hrefs, nav_url \in PageUrls, is_visible \in BOOLEAN, is_enabled \in BOOLEAN, bbox \in BOOLEAN :
          /\ Actionable(is_visible, is_enabled, bbox)
          /\ ~TargetVisited(href)
          /\ ~Navigated(page_url, nav_url)
          /\ nstate' = AfterClick(nstate, sel, page_url, nav_url, TRUE)
          /\ \E wait \in {w \in WaitOutcomes : WaitPasses(w)} :
                Continue(Waited(Validated(Attempt("no_navigation", sel, href, page_url,
                                                  nav_url, TRUE),
                                          is_visible, is_enabled, bbox), wait),
                         nav_url, 1, 1)

\* the click navigates but page.content() raises: caught, next selector
ContentRaises ==
    /\ Trying
    /\ ~IsClicked(sel)
    /\ sel \in Live
    /\ \E href \in Hrefs, nav_url \in PageUrls, is_visible \in BOOLEAN, is_enabled \in BOOLEAN, bbox \in BOOLEAN :
          /\ Actionable(is_visible, is_enabled, bbox)
          /\ ~TargetVisited(href)
          /\ Navigated(page_url, nav_url)
          /\ nstate' = AfterClick(nstate, sel, page_url, nav_url, FALSE)
          /\ \E wait \in {w \in WaitOutcomes : WaitPasses(w)} :
                Continue(Waited(Validated(Attempt("content_failed", sel, href, page_url,
                                                  nav_url, TRUE),
                                          is_visible, is_enabled, bbox), wait),
                         nav_url, 1, 1)

\* the click navigates: record it in the session and return the outcome
NavigationDetected ==
    /\ Trying
    /\ ~IsClicked(sel)
    /\ sel \in Live
    /\ \E href \in Hrefs, nav_url \in PageUrls, is_visible \in BOOLEAN, is_enabled \in BOOLEAN, bbox \in BOOLEAN :
          /\ Actionable(is_visible, is_enabled, bbox)
          /\ ~TargetVisited(href)
          /\ Navigated(page_url, nav_url)
          /\ \E wait \in {w \in WaitOutcomes : WaitPasses(w)} :
                last' = Waited(Validated(Attempt("navigated", sel, href, page_url, nav_url,
                                                 TRUE),
                                         is_visible, is_enabled, bbox), wait)
          /\ page_url' = nav_url
          /\ nstate' = AfterClick(nstate, sel, page_url, nav_url, TRUE)
          /\ ReturnInContext(Outcome(nav_url, PageContent(nav_url), sel))
    /\ probes' = probes + 1
    /\ clicks' = clicks + 1
    /\ UNCHANGED <<url, start, sets, outer, inner, loads>>
    /\ UNCHANGED outside

TrySelectors ==
    \/ EmptyInput \/ ExhaustedByDedup \/ OpenSession
    \/ Launch \/ LaunchRaises
    \/ LoadPrimary \/ LoadPrimaryFails \/ LoadFallback \/ LoadFails
    \/ Rank \/ RankRaisesOut
    \/ Expand \/ NextCandidate \/ Exhausted
    \/ SkipClicked \/ ProbeFails \/ NotActionable \/ SkipVisited
    \/ ClickRaises \/ NoNavigation \/ ContentRaises \/ NavigationDetected

(***************************************************************************)
(* The flow graph: channels, reducers and nodes                            *)
(***************************************************************************)
\* an invocation whose list channels start from their defaults
ChannelsFresh(input) ==
    [k \in (DOMAIN input \cap ChannelKeys) \ {"already_clicked", "visited_urls"}
        |-> input[k]]

\* graph.ainvoke(input): every channel starts from its default and takes the
\* input through its reducer ([] + list, 0 + int, overwrite)
Channels(input) == [k \in DOMAIN input \cap ChannelKeys |-> input[k]]

\* the channels after a node returned update: Annotated[..., operator.add]
\* adds, Annotated[..., overwrite] replaces, keys outside GraphState are dropped
Reduce(ch, update) ==
    [k \in DOMAIN ch \cup (DOMAIN update \cap ChannelKeys) |->
        IF k \notin DOMAIN update THEN ch[k]
        ELSE IF k \in {"already_clicked", "visited_urls"} THEN GetK(ch, k, << >>) \o update[k]
        ELSE IF k = "intermediate_visits" THEN GetK(ch, k, 0) + update[k]
        ELSE update[k]]

\* the node's state dict holds the channels' own list objects, so the appends
\* _try_selectors made in place are in the channels; the keys it set on the
\* dict itself (current_url) are not
Shared(ch, st) ==
    [k \in DOMAIN ch |-> IF k \in {"already_clicked", "visited_urls"} /\ k \in DOMAIN st
                         THEN st[k] ELSE ch[k]]

\* the conditional edge after classify_page_node
route_after_classify(ch) ==
    IF GetK(ch, "intermediate_visits", 0) >= 2 THEN "end_node"
    ELSE IF GetK(ch, "classification", None) = "intermediate" THEN "intermediate_page_node"
    ELSE "extract_form_fields_node"

\* the conditional edge after extract_form_fields_node
route_after_extract(ch) ==
    IF GetK(ch, "form_llm", [multi_step |-> FALSE]).multi_step
    THEN "simulate_form_fill_node" ELSE "end_node"

Running(n) == ipc = "graph" /\ node = n

\* a node that called _try_selectors finishes: the channels take its update,
\* the frame of the call and the node's state dict are gone
Finish(update, next) ==
    /\ chan' = Reduce(Shared(chan, nstate), update)
    /\ node' = next
    /\ nstate' = << >>
    /\ node_input' = << >>
    /\ pc' = "idle"
    /\ url' = None
    /\ selectors' = << >>
    /\ already_clicked' = {}
    /\ visited_urls' = {}
    /\ ranked_selectors' = << >>
    /\ i' = 0
    /\ sorted_selectors' = << >>
    /\ j' = 0
    /\ page_url' = None
    /\ browser' = "none"
    /\ releases' = 0
    /\ result' = NoOutcome
    /\ loads' = 0
    /\ probes' = 0
    /\ clicks' = 0
    /\ start' = << >>
    /\ last' = NoAttempt
    /\ request' = NoRequest
    /\ emitted' = update
    /\ UNCHANGED <<run, selector_cache, asked, gen, human_in_loop>>

\* the calling node got an outcome: "if 'browser' in nav_result:
\* await nav_result['browser'].close()" (any error of the close is swallowed)
CleanUp ==
    /\ ipc = "graph"
    /\ node \in {"landing_page_node", "intermediate_page_node", "simulate_form_fill_node"}
    /\ pc = "returned"
    /\ result # NoOutcome
    /\ "browser" \in DOMAIN result
    /\ pc' = "cleaned"
    /\ browser' = "closed"
    /\ releases' = releases + 1
    /\ UNCHANGED <<url, start, sets, outer, inner, page_url, result, counts, last, nstate>>
    /\ UNCHANGED outside

\* the node is past its call of _try_selectors (and past the clean-up)
Returned == (pc = "returned" /\ result = NoOutcome) \/ pc = "cleaned"

\* the update of a node whose _try_selectors call navigated
NavigationUpdate(nav_result) ==
    [url |-> nav_result.url, html |-> nav_result.html,
     snippet |-> html_to_text(nav_result.html)]

\* the "_new_actions" item of a node's return value: a list of one entry
NewActions(entry) == "_new_actions" :> <<entry>>

\* landing_page_node with its branches exchanged
landing_update_inverted(nav_result, nav_buttons) ==
    IF nav_result = NoOutcome
    THEN NewActions([type |-> "found_loan_application", selector_used |-> None])
    ELSE NewActions([type |-> "loan_application_not_found", candidates |-> nav_buttons])

\* the return value of landing_page_node
landing_update(nav_result, nav_buttons) ==
    IF nav_result # NoOutcome
    THEN NavigationUpdate(nav_result)
           @@ NewActions([type |-> "found_loan_application",
                          selector_used |-> nav_result.selector])
    ELSE NewActions([type |-> "loan_application_not_found", candidates |-> nav_buttons])

\* the return value of intermediate_page_node on its auto-select path
intermediate_update(nav_result, intermediate_visits) ==
    IF nav_result # NoOutcome
    THEN NavigationUpdate(nav_result)
           @@ NewActions([type |-> "intermediate_option_selected",
                          selector_used |-> nav_result.selector])
           @@ [intermediate_visits |-> intermediate_visits,
               current_url |-> nav_result.url]
    ELSE NewActions([type |-> "no_option_selected"])
           @@ [intermediate_visits |-> intermediate_visits]

\* the return value of simulate_form_fill_node
simulate_update(nav_result, next_selectors, html) ==
    IF nav_result # NoOutcome
    THEN NavigationUpdate(nav_result)
           @@ NewActions([type |-> "form_next_click",
                          selector_used |-> nav_result.selector])
    ELSE [html |-> html]
           @@ NewActions([type |-> "form_next_no_nav", candidates |-> next_selectors])

\* landing_page_node up to the call of _try_selectors
LandingCall ==
    /\ Running("landing_page_node")
    /\ pc = "idle"
    /\ \E nav_buttons \in CandidateLists : Call(GetK(chan, "url", None), nav_buttons)
    /\ UNCHANGED <<run, chan, node, kept>>

\* landing_page_node after the call
LandingReturn ==
    /\ Running("landing_page_node")
    /\ Returned
    /\ Finish(landing_update(result, node_input), "classify_page_node")
    /\ UNCHANGED hops

\* what groq.classify_form_or_intermediate can return: the parsed JSON object
\* of the LLM, with a page_type or without one, or the dict _safe_parse_json
\* builds when it finds no JSON
ClassifierAnswers ==
    { [page_type |-> "intermediate"], [page_type |-> "form"], [page_type |-> "landing"],
      [choice_options_found |-> TRUE], [raw_text |-> ""] }

\* classify_page_node handing the page_type on as the LLM gave it
classify_update_raw(llm_result) ==
    [classification |-> GetK(llm_result, "page_type", None),
     classification_llm |-> llm_result]

\* the return value of classify_page_node: a page_type outside
\* {intermediate, form} becomes intermediate
classify_update(llm_result) ==
    LET page_type == GetK(llm_result, "page_type", None)
    IN  [classification |-> IF page_type \notin {"intermediate", "form"}
                            THEN "intermediate" ELSE page_type,
         classification_llm |-> llm_result]

classify_page_node ==
    /\ Running("classify_page_node")
    /\ \E llm_result \in ClassifierAnswers :
          LET ch == Reduce(chan, classify_update(llm_result))
          IN  /\ chan' = ch
              /\ node' = route_after_classify(ch)
              /\ emitted' = classify_update(llm_result)
    /\ UNCHANGED <<run, nstate, node_input, helper, gen, human_in_loop, hops, resolver>>

\* current_url = state.get("current_url") or state.get("url")
CurrentUrl(st) ==
    IF Truthy(GetK(st, "current_url", None)) THEN st["current_url"]
    ELSE GetK(st, "url", None)

\* recommended + others
sorted_options(options) ==
    SelectSeq(options, LAMBDA opt : Get(opt, "recommended", FALSE) = TRUE)
       \o SelectSeq(options, LAMBDA opt : Get(opt, "recommended", FALSE) # TRUE)

\* what the user can type at the prompt, stripped and lower-cased
HumanChoices == {"q", "0", "1", "2", "x"}

\* int(choice) returns a number; it raises ValueError on anything else
IsNumber(choice) == choice \in {"0", "1", "2"}

\* int(choice) for the choices that are numbers
ParseInt(choice) ==
    CASE choice = "0" -> 0
      [] choice = "1" -> 1
      [] choice = "2" -> 2

\* int(choice) returns and 0 <= idx < len(sorted_options)
ChoiceValid(choice, options) ==
    /\ IsNumber(choice)
    /\ 0 <= ParseInt(choice) - 1
    /\ ParseInt(choice) - 1 < Len(options)

\* the human path returns without a call of _try_selectors: the update has
\* a _new_actions entry and nothing else
Declines(type) ==
    /\ Running("intermediate_page_node")
    /\ human_in_loop
    /\ pc = "idle"
    /\ hops.executed < MaxHops
    /\ chan' = Reduce(chan, NewActions([type |-> type]))
    /\ node' = "classify_page_node"
    /\ emitted' = NewActions([type |-> type])
    /\ hops' = [hops EXCEPT !.executed = @ + 1, !.declined = GetK(chan, "url", None)]
    /\ UNCHANGED <<run, nstate, node_input, helper, gen, human_in_loop, resolver>>

\* if choice == 'q': return {"_new_actions": [{"type": "human_cancelled"}]}
HumanCancels ==
    /\ Declines("human_cancelled")
    /\ "q" \in HumanChoices

\* the choice is no number or is out of range: human_choice_invalid
HumanChoiceInvalid ==
    /\ Declines("human_choice_invalid")
    /\ \E options \in CandidateLists, choice \in HumanChoices \ {"q"} :
          ~ChoiceValid(choice, sorted_options(options))

\* the choice is the number of an option: _try_selectors(current_url, [selected], state)
HumanSelects ==
    /\ Running("intermediate_page_node")
    /\ human_in_loop
    /\ pc = "idle"
    /\ hops.executed < MaxHops
    /\ \E options \in CandidateLists, choice \in HumanChoices \ {"q"} :
          /\ ChoiceValid(choice, sorted_options(options))
          /\ Call(CurrentUrl(chan), <<sorted_options(options)[ParseInt(choice)]>>)
    /\ emitted' = << >>
    /\ UNCHANGED <<run, chan, node, helper, gen, human_in_loop, hops>>

\* intermediate_page_node (auto-select path) up to the call of _try_selectors
IntermediateCall ==
    /\ Running("intermediate_page_node")
    /\ ~human_in_loop
    /\ pc = "idle"
    /\ \E options \in CandidateLists : Call(CurrentUrl(chan), options)
    /\ emitted' = << >>
    /\ UNCHANGED <<run, chan, node, helper, gen, human_in_loop, hops>>

\* intermediate_page_node after the call
IntermediateReturn ==
    /\ Running("intermediate_page_node")
    /\ Returned
    /\ LET intermediate_visits == GetK(start, "intermediate_visits", 0) + 1
       IN  Finish(intermediate_update(result, intermediate_visits), "classify_page_node")
    /\ hops' = [hops EXCEPT !.executed = @ + 1, !.attempts = @ + 1]

\* extract_form_fields_node: the LLM says whether the form is multi-step
extract_form_fields_node ==
    /\ Running("extract_form_fields_node")
    /\ \E multi_step \in BOOLEAN :
          LET ch == Reduce(chan, [form_llm |-> [multi_step |-> multi_step]])
          IN  /\ chan' = ch
              /\ node' = route_after_extract(ch)
    /\ emitted' = << >>
    /\ UNCHANGED <<run, nstate, node_input, helper, gen, human_in_loop, hops, resolver>>

\* simulate_form_fill_node up to the call of _try_selectors
SimulateCall ==
    /\ Running("simulate_form_fill_node")
    /\ pc = "idle"
    /\ \E next_selectors \in CandidateLists : Call(GetK(chan, "url", None), next_selectors)
    /\ UNCHANGED <<run, chan, node, kept>>

\* simulate_form_fill_node after the call
SimulateReturn ==
    /\ Running("simulate_form_fill_node")
    /\ Returned
    /\ Finish(simulate_update(result, node_input, GetK(start, "html", "")),
              "extract_form_fields_node")
    /\ UNCHANGED hops

\* groq.find_next_or_submit_button raises inside simulate_form_fill_node
SimulateRaises ==
    /\ Running("simulate_form_fill_node")
    /\ pc = "idle"
    /\ ipc' = "raised"
    /\ node' = "none"
    /\ UNCHANGED <<state, invocations, chan, nstate, node_input, kept,
                   resolver>>

\* end_node: records runtime.final_url, then END
end_node ==
    /\ Running("end_node")
    /\ node' = "END"
    /\ emitted' = << >>
    /\ UNCHANGED <<run, chan, nstate, node_input, helper, gen, human_in_loop, hops,
                   resolver>>

\* an exception of _try_selectors leaves the node, the graph and invoke_start
Propagate ==
    /\ ipc = "graph"
    /\ pc = "raised"
    /\ ipc' = "raised"
    /\ node' = "none"
    /\ pc' = "idle"
    /\ UNCHANGED <<state, invocations, chan, nstate, node_input, kept,
                   url, start, sets, outer, inner, page_url, session, result, counts, last>>

Nodes ==
    \/ CleanUp
    \/ LandingCall \/ LandingReturn
    \/ classify_page_node
    \/ IntermediateCall \/ IntermediateReturn
    \/ extract_form_fields_node
    \/ SimulateCall \/ SimulateReturn \/ SimulateRaises
    \/ end_node
    \/ Propagate

(***************************************************************************)
(* invoke_start                                                            *)
(***************************************************************************)
\* result = await self.graph.ainvoke(state)
Invoke ==
    /\ ipc = "invoke"
    /\ invocations < MaxInvocations
    /\ ipc' = "graph"
    /\ invocations' = invocations + 1
    /\ chan' = Channels(state)
    /\ node' = "landing_page_node"
    /\ hops' = [hops EXCEPT !.executed = 0, !.declined = None]
    /\ UNCHANGED <<state, nstate, node_input, helper, emitted, gen, human_in_loop,
                   resolver>>

\* state.update(result)
Updated(st, res) == [k \in DOMAIN st \cup DOMAIN res |-> IF k \in DOMAIN res THEN res[k] ELSE st[k]]

\* if current_url and current_url not in state["visited_urls"]: append
Visit(st) ==
    LET current_url == GetK(st, "url", None)
    IN  IF Truthy(current_url) /\ current_url \notin ToSet(st["visited_urls"])
        THEN SetK(st, "visited_urls", Append(st["visited_urls"], current_url))
        ELSE st

\* the loop body after ainvoke returned: update, record the URL, loop or return
Resume ==
    /\ ipc = "graph"
    /\ node = "END"
    /\ LET st == Visit(Updated(state, chan))
       IN  /\ state' = st
           /\ ipc' = IF /\ GetK(st, "classification", "unknown")
                               \in {"intermediate", "simulate_fill"}
                        /\ Truthy(GetK(st, "html", None))
                     THEN "invoke" ELSE "returned"
    /\ node' = "none"
    /\ UNCHANGED <<invocations, chan, nstate, node_input, kept, resolver>>

Next == TrySelectors \/ Nodes \/ Invoke \/ Resume

Spec == Init /\ [][Next]_vars

\* the nodes of an orchestrator built with human_in_loop=True
HumanNodes ==
    \/ CleanUp
    \/ LandingCall \/ LandingReturn
    \/ classify_page_node
    \/ HumanCancels \/ HumanChoiceInvalid \/ HumanSelects \/ IntermediateReturn
    \/ extract_form_fields_node
    \/ SimulateCall \/ SimulateReturn \/ SimulateRaises
    \/ end_node
    \/ Propagate

HumanNext == TrySelectors \/ HumanNodes \/ Invoke \/ Resume

HumanSpec == HumanInit /\ [][HumanNext]_vars

(***************************************************************************)
(* Properties of the resolver and of the run                               *)
(***************************************************************************)
\* set(state.get("already_clicked", [])) and set(state.get("visited_urls", []))
Clicked(st) == ToSet(GetK(st, "already_clicked", << >>))
Visited(st) == ToSet(GetK(st, "visited_urls", << >>))

\* the two lists of the session memory
Lists == {"already_clicked", "visited_urls"}

\* the dict that holds the run's session lists: the state dict of the node
\* while a call is under way, the channels between nodes, invoke_start's
\* state dict between invocations
Session == IF pc # "idle" THEN nstate ELSE IF ipc = "graph" THEN chan ELSE state

\* the call has returned to the node (before or after the node's clean-up)
Back == pc \in {"returned", "cleaned"}

\* the call is over and nothing more will touch its browser session
Over == (pc = "returned" /\ result = NoOutcome) \/ pc = "cleaned" \/ pc = "raised"

\* the call is past its entry checks
Entered == pc \notin {"idle", "entry"}

\* no browser launched, no page loaded, nothing probed, nothing clicked
Untouched == browser = "none" /\ releases = 0 /\ loads = 0 /\ probes = 0 /\ clicks = 0

\* C1: a selector string that is in already_clicked when a call starts is
\* never clicked during that call, as a raw selector or as a synthesized one
C1_NeverClickedAgain == last.clicked => last.sel \notin Clicked(start)

\* C1 witness: a synthesized strategy of a candidate whose own selector is not
\* in already_clicked is skipped because its string was clicked in an earlier call
C1_SynthesizedSkipped ==
    /\ pc = "attempt"
    /\ last.kind = "skip_clicked"
    /\ last.sel \in Clicked(start)
    /\ Get(ranked_selectors[i], "selector", None) \notin Clicked(start)

\* C2: an outcome is returned only for a click that changed the page URL and
\* reports that click; a click that left the URL as it was gives no outcome
\* and the loop goes on with the next ranked selector
C2_NoOpClickIsNotSuccess ==
    /\ [](result # NoOutcome =>
            /\ last.clicked
            /\ last.post # last.pre
            /\ result.url = last.post
            /\ result.selector = last.sel)
    /\ [][(clicks' = clicks + 1 /\ last'.post = last'.pre) =>
            /\ result' = NoOutcome
            /\ pc' = "attempt"
            /\ sorted_selectors' = sorted_selectors
            /\ j' = j + 1]_vars

\* C2 witness: a click went through, the URL did not change, a later selector
\* of the same call is under trial
C2_NoOpClickPassed ==
    /\ pc = "attempt"
    /\ last.kind = "no_navigation"
    /\ last.post = last.pre
    /\ j <= Len(sorted_selectors)
    /\ result = NoOutcome

\* C3: an element whose href resolves, in the page it is on, to a member of
\* visited_urls is never clicked
C3_VisitedTargetNeverClicked ==
    (last.clicked /\ last.target # None) => last.target \notin Visited(start)

\* C4: when the call returns an outcome, the state dict holds the lists it
\* started with plus exactly the returned selector and the returned URL
C4_SuccessRecorded ==
    (Back /\ result # NoOutcome) =>
        /\ GetK(nstate, "already_clicked", << >>)
              = Append(GetK(start, "already_clicked", << >>), result.selector)
        /\ GetK(nstate, "visited_urls", << >>)
              = Append(GetK(start, "visited_urls", << >>), result.url)
        /\ result.selector \in Clicked(nstate)
        /\ result.url \in Visited(nstate)

\* C4 witness: a call returned an outcome to a session that had clicks already
C4_SecondSuccess ==
    /\ Back
    /\ result # NoOutcome
    /\ Clicked(start) # {}

\* C5: a call that returns no outcome leaves already_clicked and visited_urls
\* as they were when it started
C5_FailureLeavesSession ==
    (pc = "returned" /\ result = NoOutcome) =>
        /\ GetK(nstate, "already_clicked", << >>) = GetK(start, "already_clicked", << >>)
        /\ GetK(nstate, "visited_urls", << >>) = GetK(start, "visited_urls", << >>)

\* C5 witness: a call that loaded the page and clicked returned no outcome
C5_ClickedAndFailed ==
    /\ pc = "returned"
    /\ result = NoOutcome
    /\ clicks > 0
    /\ loads > 0

\* C6: over the calls and the invocations of one run no member leaves
\* already_clicked or visited_urls (a run that ends in an exception has no
\* session any more)
C6_SessionGrows ==
    [][ipc' # "raised" =>
          /\ Clicked(Session) \subseteq Clicked(Session)'
          /\ Visited(Session) \subseteq Visited(Session)']_vars

\* C6 witness: the second invocation of a run starts from lists that the
\* first one's calls extended
C6_SecondInvocationGrown ==
    /\ invocations = 2
    /\ ipc = "graph"
    /\ node = "landing_page_node"
    /\ pc = "idle"
    /\ Clicked(Session) # {}
    /\ Cardinality(Visited(Session)) >= 2

\* C7 as claimed: the call changes the state dict only in already_clicked and
\* visited_urls; it has the same keys after the call, and every other key
\* its value
C7_OnlyTheListsChange ==
    Back =>
        /\ DOMAIN nstate = DOMAIN start
        /\ \A k \in DOMAIN start \ Lists : nstate[k] = start[k]

\* C7 amended: the call changes the state dict only by appending to
\* already_clicked and visited_urls and, on success, by setting current_url
\* to the new URL; every other key keeps its value, and a call without an
\* outcome changes nothing
C7_ListsAndCurrentUrl ==
    Back =>
        /\ DOMAIN start \subseteq DOMAIN nstate
        /\ DOMAIN nstate \subseteq DOMAIN start \cup {"current_url"}
        /\ \A k \in DOMAIN start \ (Lists \cup {"current_url"}) : nstate[k] = start[k]
        /\ \A k \in Lists \cap DOMAIN start :
              /\ Len(start[k]) <= Len(nstate[k])
              /\ SubSeq(nstate[k], 1, Len(start[k])) = start[k]
        /\ IF result # NoOutcome
           THEN nstate["current_url"] = result.url
           ELSE nstate = start

\* C7 witness: a call returned an outcome and the dict has a current_url it
\* did not have
C7_CurrentUrlSet ==
    /\ Back
    /\ result # NoOutcome
    /\ "current_url" \notin DOMAIN start
    /\ nstate["current_url"] = result.url
    /\ nstate["url"] # result.url

\* C8: with an empty url or an empty candidate list the call returns no
\* outcome at once: no browser, no page load, no probe, no click
C8_EmptyInputReturnsAtOnce ==
    (Entered /\ (~Truthy(url) \/ node_input = << >>)) =>
        /\ pc = "returned"
        /\ result = NoOutcome
        /\ Untouched

\* C8 witness: a call with candidates and an empty url has returned
C8_EmptyUrlReturned ==
    /\ pc = "returned"
    /\ ~Truthy(url)
    /\ node_input # << >>

\* C9: when every candidate's raw selector is in already_clicked the call
\* returns no outcome before a browser is launched or a page loaded
C9_ExhaustedByDedup ==
    (/\ Entered
     /\ node_input # << >>
     /\ \A k \in 1..Len(node_input) :
           Get(node_input[k], "selector", None) \in Clicked(start)) =>
        /\ pc = "returned"
        /\ result = NoOutcome
        /\ Untouched

\* C9 witness: a call with a url and candidates that were all clicked before
\* has returned
C9_AllClickedReturned ==
    /\ pc = "returned"
    /\ Truthy(url)
    /\ node_input # << >>
    /\ \A k \in 1..Len(node_input) :
          Get(node_input[k], "selector", None) \in Clicked(start)

\* C10: on every exit path of a call that launched a browser, the browser
\* session is released exactly once, the resolver's own close, the exit of the
\* playwright context and the calling node's close counted together
C10_ReleasedExactlyOnce == (Over /\ browser # "none") => releases = 1

\* both page.goto calls of the call raised
BothLoadsFailed == pc # "idle" /\ loads = 2 /\ page_url = None

\* C11: on success the browser session is released inside the resolver before
\* the outcome is returned, and the outcome carries the new URL, the new
\* markup and the selector used and nothing else: no browser or page handle
C11_OutcomeWithoutHandles ==
    (Back /\ result # NoOutcome) =>
        /\ (pc = "returned" => browser = "closed" /\ releases = 1)
        /\ DOMAIN result = {"url", "html", "selector"}

\* C12: when the network-idle load and the fallback load both fail the call
\* returns no outcome and nothing is ranked, synthesized, probed or clicked
C12_LoadFailureIsTerminal ==
    BothLoadsFailed =>
        /\ pc = "returned"
        /\ result = NoOutcome
        /\ ranked_selectors = << >>
        /\ sorted_selectors = << >>
        /\ i = 0
        /\ probes = 0
        /\ clicks = 0

\* C12 witness: a call whose two loads failed has returned
C12_BothLoadsFailedReturned ==
    /\ BothLoadsFailed
    /\ pc = "returned"
    /\ browser = "closed"

\* C13: whatever the candidates, the session, the browser and the LLM helper
\* do, the call ends by returning an outcome or the no-outcome value: no
\* exception reaches the caller
C13_NoExceptionEscapes == pc # "raised"

\* the ways one selector can fail: the probe (timeout, invalid selector), the
\* validation, the click
PerSelectorFailures == {"probe_failed", "not_actionable", "click_failed"}

\* C14: a failure of one selector is not fatal: the loop goes on with the next
\* selector, and a call in which a selector failed ends only with the outcome
\* of a navigating click or when every candidate has been gone through
C14_FailuresAreNotFatal ==
    /\ [][(probes' = probes + 1 /\ last'.kind \in PerSelectorFailures) =>
            /\ pc' = "attempt"
            /\ j' = j + 1
            /\ UNCHANGED <<sorted_selectors, ranked_selectors, i>>]_vars
    /\ []((Over /\ probes > 0 /\ last.kind \in PerSelectorFailures) =>
            \/ result # NoOutcome
            \/ pc = "returned" /\ i > Len(ranked_selectors))

\* C15: an element is clicked only if the probe found it and it is visible,
\* enabled and has a bounding box: one that fails a check is never clicked
C15_ActionabilityGate ==
    /\ last.clicked =>
          last.found /\ last.is_visible /\ last.is_enabled /\ last.bbox
    /\ (last.found /\ ~(last.is_visible /\ last.is_enabled /\ last.bbox)) =>
          /\ ~last.clicked
          /\ last.kind = "not_actionable"

\* C15 witness: an element that is visible and enabled and has no bounding
\* box was passed over, the loop is at the next selector
C15_NoBoxPassedOver ==
    /\ pc = "attempt"
    /\ last.kind = "not_actionable"
    /\ last.is_visible
    /\ last.is_enabled
    /\ ~last.bbox
    /\ clicks = 0

\* the raw selectors of the candidates the caller supplied
RawSelectors == {Get(node_input[k], "selector", None) : k \in 1..Len(node_input)}

\* C16: the selector of an outcome is the raw selector of one of the
\* candidates the caller supplied, and it is the second candidate's when only
\* the second candidate's selector matches an element of the page
C16_SelectorIsACandidates ==
    (Back /\ result # NoOutcome) =>
        /\ result.selector \in RawSelectors
        /\ (/\ Len(node_input) = 2
            /\ Get(node_input[1], "selector", None) \notin Live
            /\ Get(node_input[2], "selector", None) \in Live) =>
              result.selector = Get(node_input[2], "selector", None)

\* C17: an outcome reports the validated element state: it has the keys
\* visible, enabled and bbox, with visible and enabled true
C17_OutcomeReportsElementState ==
    (Back /\ result # NoOutcome) =>
        /\ {"visible", "enabled", "bbox"} \subseteq DOMAIN result
        /\ result["visible"] = TRUE
        /\ result["enabled"] = TRUE

(***************************************************************************)
(* SelectorManager.rank_selectors on its own: the ranking applied to every *)
(* candidate list of a bounded length over a pool of candidates            *)
(***************************************************************************)
MaxRankLen == 3

cCta    == << <<"selector", ".cta">> >>
cBtn    == << <<"selector", ".btn">> >>
cBoth   == << <<"selector", "//a[text()=\"Go\"][contains(text(),\"Go\")]">>,
              <<"text", "Go">> >>
cQa     == << <<"selector", "[data-qa=\"go\"]">> >>
cTestId == << <<"selector", "[data-testid=\"go\"]">> >>

RankPool == {cId, cCta, cBtn, cBoth, cQa, cTestId, cNone, cNull}

\* an ID selector and a selector of five classes, with the text values a
\* candidate can carry (None: no text key)
IdSelector         == "#apply-now"
MultiClassSelector == ".apply.cta.btn.primary.large"
RankTexts          == {None, "", "Go", "Apply Now"}

WithText(s, text) ==
    IF text = None THEN << <<"selector", s>> >>
    ELSE << <<"selector", s>>, <<"text", text>> >>

IdAndMultiClass ==
    UNION { { <<WithText(IdSelector, t), WithText(MultiClassSelector, t)>>,
              <<WithText(MultiClassSelector, t), WithText(IdSelector, t)>> }
            : t \in RankTexts }

\* the candidates of test_rank_selectors, in every input order
cDataAction == << <<"selector", "button[data-action='apply']">> >>
cAnchor     == << <<"selector", "a.apply-now-btn.some-long-class-names">> >>

TestRankCands == <<cDataAction, cPlain, cAnchor>>

TestRankInputs ==
    { [k \in 1..3 |-> TestRankCands[f[k]]] :
        f \in {g \in [1..3 -> 1..3] : \A a, b \in 1..3 : a # b => g[a] # g[b]} }

RankInputs ==
    UNION {[1..n -> RankPool] : n \in 0..MaxRankLen}
      \cup IdAndMultiClass \cup TestRankInputs

\* a call at line 479 with a loaded page, about to rank its candidates
RankInit ==
    /\ state = InitialState(UrlA, "")
    /\ ipc = "graph"
    /\ invocations = 1
    /\ chan = Channels(state)
    /\ node = "landing_page_node"
    /\ selector_cache = << >>
    /\ asked = << >>
    /\ request = NoRequest
    /\ emitted = << >>
    /\ gen = NoGen
    /\ human_in_loop = FALSE
    /\ hops = NoHops
    /\ nstate = chan
    /\ start = chan
    /\ selectors \in RankInputs
    /\ node_input = selectors
    /\ pc = "rank"
    /\ url = UrlA
    /\ already_clicked = {}
    /\ visited_urls = {UrlA}
    /\ ranked_selectors = << >>
    /\ i = 0
    /\ sorted_selectors = << >>
    /\ j = 0
    /\ page_url = UrlA
    /\ browser = "open"
    /\ releases = 0
    /\ result = NoOutcome
    /\ loads = 1
    /\ probes = 0
    /\ clicks = 0
    /\ last = NoAttempt

\* rank_selectors called once more on the same list
RankTwice ==
    /\ pc = "expand"
    /\ i = 1
    /\ sorted_selectors' = rank_selectors(selectors)
    /\ pc' = "ranked_twice"
    /\ UNCHANGED <<url, start, sets, outer, j, page_url, session, result, counts, last,
                   nstate>>
    /\ UNCHANGED outside

RankNext == Rank \/ RankRaisesOut \/ RankTwice

RankSpec == RankInit /\ [][RankNext]_vars

\* the list has been ranked
Ranked == pc \in {"expand", "ranked_twice"}

\* C18: rank_selectors returns a permutation of its input in non-increasing
\* score order, candidates of equal score in their input order, and the same
\* order when the same input is ranked again
C18_StableDescendingPermutation ==
    Ranked =>
        LET n == Len(selectors)
        IN  /\ Len(ranked_selectors) = n
            /\ \E f \in [1..n -> 1..n] :
                  /\ \A a, b \in 1..n : a # b => f[a] # f[b]
                  /\ \A k \in 1..n : ranked_selectors[k] = selectors[f[k]]
                  /\ \A a, b \in 1..n : a < b =>
                        \/ score(selectors[f[a]]) > score(selectors[f[b]])
                        \/ /\ score(selectors[f[a]]) = score(selectors[f[b]])
                           /\ f[a] < f[b]
            /\ (pc = "ranked_twice" => sorted_selectors = ranked_selectors)

\* C18 witness: three candidates were reordered, two different ones of equal
\* score among them, and ranked a second time
C18_TiesReordered ==
    /\ pc = "ranked_twice"
    /\ Len(selectors) = 3
    /\ ranked_selectors # selectors
    /\ score(selectors[1]) = score(selectors[3])
    /\ selectors[1] # selectors[3]
    /\ score(selectors[2]) > score(selectors[1])

\* C19: the score of a candidate is the sum of the deltas of all the rows
\* that match it, each row applied on its own: a selector with an exact text
\* equality and a substring text match gets +45 and +35
C19_RowsAreIndependent ==
    Ranked =>
        \A k \in 1..Len(ranked_selectors) :
            LET cand == ranked_selectors[k]
                s    == Get(cand, "selector", "")
                text == Get(cand, "text", "")
            IN  score(cand) = row_deltas(s, text) + TextDeltaBoth(s, text)

\* C20: a selector that contains data-testid, data-test or data-qa gets the
\* +90 of the test-id row
C20_TestIdDelta ==
    Ranked =>
        \A k \in 1..Len(ranked_selectors) :
            LET s == Get(ranked_selectors[k], "selector", "")
            IN  (Contains(s, "data-testid") \/ Contains(s, "data-test")
                   \/ Contains(s, "data-qa")) => test_id_delta(s) = 90

\* C21: for every text value the two candidates share, the candidate with
\* the ID selector scores at least as high as the candidate with the selector
\* of five classes and is ranked before it
C21_IdBeatsMultiClass ==
    Ranked =>
        \A a, b \in 1..Len(ranked_selectors) :
            LET ca == ranked_selectors[a]
                cb == ranked_selectors[b]
            IN  (/\ Get(ca, "selector", "") = IdSelector
                 /\ Get(cb, "selector", "") = MultiClassSelector
                 /\ Has(ca, "text") = Has(cb, "text")
                 /\ Get(ca, "text", "") = Get(cb, "text", "")) =>
                    /\ score(ca) >= score(cb)
                    /\ a < b

\* C21 witness: the five-class candidate came first in the input, both carry
\* the text Apply Now, and the ID candidate is first in the ranking
C21_IdMovedFirst ==
    /\ pc = "expand"
    /\ selectors = <<WithText(MultiClassSelector, "Apply Now"),
                     WithText(IdSelector, "Apply Now")>>
    /\ ranked_selectors = <<selectors[2], selectors[1]>>

\* C22: ranking the three text-less candidates of test_rank_selectors gives
\* a non-empty list: #apply-now first, the data-attribute button second, the
\* multi-class anchor last
C22_TestRankOrder ==
    (Ranked /\ selectors \in TestRankInputs) =>
        /\ ranked_selectors # << >>
        /\ ranked_selectors = <<cPlain, cDataAction, cAnchor>>

\* C22 witness: the list of the test, in the order of the test, was ranked
C22_TestListRanked ==
    /\ pc = "expand"
    /\ selectors = TestRankCands
    /\ ranked_selectors[1] = cPlain
    /\ ranked_selectors[3] = cAnchor

(***************************************************************************)
(* Synthesis claims, checked on the expansions of a full run               *)
(***************************************************************************)
\* the keys of a candidate dict
Keys(cand) == {cand[k][1] : k \in 1..Len(cand)}

\* the candidate whose strategies are under trial
Current == ranked_selectors[i]

\* the selectors of the strategies of the candidate under trial that the
\* synthesis built, the LLM helper's suggestions left out
Synthesized ==
    {Get(sorted_selectors[k], "selector", None) :
        k \in {m \in 1..Len(sorted_selectors) : ~Has(sorted_selectors[m], "source")}}

\* C23: for a candidate with a text label and nothing else the expanded set
\* holds an exact-text XPath, a contains-text XPath, a normalize-space XPath
\* and a CSS has-text selector for a and one for button, each built from the
\* text
C23_TextOnlyExpansion ==
    (/\ pc = "attempt"
     /\ Keys(Current) = {"text"}
     /\ Truthy(Get(Current, "text", ""))) =>
        LET text == Get(Current, "text", "")
        IN  { "//*[text()=\"" \o text \o "\"]",
              "//*[contains(text(),\"" \o text \o "\")]",
              "//*[normalize-space()=\"" \o text \o "\"]",
              "a:has-text(\"" \o text \o "\")",
              "button:has-text(\"" \o text \o "\")" } \subseteq Synthesized

\* C23 witness: the text-only candidate was expanded while the LLM helper
\* failed, and its first strategy is about to be tried
C23_TextOnlyExpanded ==
    /\ pc = "attempt"
    /\ j = 1
    /\ Current = cText
    /\ request.failed
    /\ Len(sorted_selectors) = 10

\* the attributes the synthesis reads from a candidate
SynthesisAttrs(cand) ==
    {a \in Keys(cand) :
        \/ a \in {"aria-label", "role", "title", "name", "for", "placeholder"}
        \/ (Len(a) >= 5 /\ SubSeq(a, 1, 5) = "data-")}

\* a selector that quotes the label text
BuiltFromText(s, text) == Truthy(text) /\ Contains(s, "\"" \o Str(text) \o "\"")

\* a selector that tests an attribute the candidate has
BuiltFromAttr(s, cand) ==
    \E a \in SynthesisAttrs(cand) :
        LET head == "[" \o a \o "=\"" \o Str(Get(cand, a, None)) \o "\"]"
        IN  Len(s) >= Len(head) /\ SubSeq(s, 1, Len(head)) = head

\* a candidate without a selector, a text or an attribute the synthesis reads
NoUsableField(cand) ==
    /\ ~Truthy(Get(cand, "selector", None))
    /\ ~Truthy(Get(cand, "text", ""))
    /\ SynthesisAttrs(cand) = {}

\* C24: the synthesis does not fail on a missing field and emits exactly the
\* selectors whose inputs are present: the raw selector when there is one,
\* the text strategies when there is a text, one attribute selector for each
\* attribute there is, and nothing built from a field that is absent; an
\* expansion raises only on a selector of the LLM helper's answer, never on a
\* missing field; a candidate with no usable field has an empty expansion and
\* the loop moves to the next candidate
C24_MissingFieldsTolerated ==
    /\ [](pc = "attempt" =>
            LET raw  == Get(Current, "selector", None)
                text == Get(Current, "text", "")
            IN  /\ Truthy(raw) => raw \in Synthesized
                /\ Truthy(text) =>
                      \A k \in 1..10 : TextStrategies(text)[k][1][2] \in Synthesized
                /\ \A a \in SynthesisAttrs(Current) :
                      AttrSelector(a, Get(Current, a, None)) \in Synthesized
                /\ \A s \in Synthesized :
                      \/ Truthy(raw) /\ s = raw
                      \/ BuiltFromText(s, text)
                      \/ BuiltFromAttr(s, Current)
                /\ NoUsableField(Current) => sorted_selectors = << >>)
    /\ [][(pc = "expand" /\ pc' = "raised") =>
            /\ Truthy(Get(Current, "text", ""))
            /\ request'.text = Get(Current, "text", "")
            /\ \E k \in 1..Len(request'.result) :
                  Get(request'.result[k], "selector", None) = None]_vars
    /\ [][(pc = "attempt" /\ sorted_selectors = << >>) =>
            (pc' = "expand" /\ i' = i + 1)]_vars

\* C24 witness: a candidate without any field got an empty expansion and
\* the loop is past it
C24_EmptyCandidatePassed ==
    /\ pc = "expand"
    /\ i > 1
    /\ ranked_selectors[i - 1] = cNone
    /\ sorted_selectors = << >>
    /\ j = 1

(***************************************************************************)
(* The LLM selector-suggestion helper                                      *)
(***************************************************************************)
\* C27: once suggestions have been requested for a label text, every later
\* request for the same label text returns what the first request returned
\* and does not call the LLM again
C27_EveryRequestCached ==
    request.again =>
        /\ request.result = request.first
        /\ ~request.called

\* C27 amended: once a request for a label text has succeeded (the LLM
\* answered with a list that was parsed, and the list was cached), every
\* later request for the same label text returns that list and does not call
\* the LLM again; a cached list is never replaced or dropped
C27_SuccessfulRequestCached ==
    /\ [](request.cached =>
            /\ request.text \in DOMAIN selector_cache
            /\ request.result = selector_cache[request.text]
            /\ ~request.called)
    /\ []((request.text # None /\ request.called /\ ~request.failed) =>
            /\ request.text \in DOMAIN selector_cache
            /\ selector_cache[request.text] = request.result)
    /\ [][\A t \in DOMAIN selector_cache :
            /\ t \in DOMAIN selector_cache'
            /\ selector_cache'[t] = selector_cache[t]]_vars

\* C27 witness: a request found the list an earlier call had cached, on
\* another page than the one the browser first loaded
C27_ServedFromCache ==
    /\ request.cached
    /\ request.again
    /\ request.result # << >>
    /\ invocations = 2
    /\ pc = "attempt"

\* C28: when the LLM call raises or answers unparsably the helper contributes
\* the empty list, and the same call goes on to try the candidate's raw
\* selector and every fixed heuristic expansion: the expansion is the ranking
\* of the synthesis without suggestions, and the step does not raise
C28_HelperFailureDegrades ==
    /\ []((pc = "attempt" /\ Truthy(Get(Current, "text", "")) /\ request.failed) =>
            LET raw  == Get(Current, "selector", None)
                text == Get(Current, "text", "")
            IN  /\ request.result = << >>
                /\ \A k \in 1..Len(sorted_selectors) : ~Has(sorted_selectors[k], "source")
                /\ Truthy(raw) => raw \in Synthesized
                /\ \A k \in 1..10 : TextStrategies(text)[k][1][2] \in Synthesized
                /\ \A a \in SynthesisAttrs(Current) :
                      AttrSelector(a, Get(Current, a, None)) \in Synthesized)
    /\ [][(/\ pc = "expand"
           /\ pc' # "expand"
           /\ i <= Len(ranked_selectors)
           /\ Truthy(Get(Current, "text", ""))
           /\ request'.failed) =>
            /\ pc' = "attempt"
            /\ j' = 1
            /\ Len(sorted_selectors') >= 10]_vars

\* C28 witness: the LLM call failed for a candidate with a selector and a
\* text, and the loop is past the first of its eleven strategies
C28_TriedAfterHelperFailure ==
    /\ pc = "attempt"
    /\ Current = cId
    /\ request.failed
    /\ Len(sorted_selectors) = 11
    /\ j > 1
    /\ probes > 0

(***************************************************************************)
(* The nodes that navigate                                                 *)
(***************************************************************************)
\* the action types a navigating node can report
SuccessType ==
    [landing_page_node       |-> "found_loan_application",
     intermediate_page_node  |-> "intermediate_option_selected",
     simulate_form_fill_node |-> "form_next_click"]

FailureType ==
    [landing_page_node       |-> "loan_application_not_found",
     intermediate_page_node  |-> "no_option_selected",
     simulate_form_fill_node |-> "form_next_no_nav"]

\* the step in which a navigating node returns its update to the graph
NodeReturns ==
    /\ ipc = "graph"
    /\ node \in DOMAIN SuccessType
    /\ pc \in {"returned", "cleaned"}
    /\ pc' = "idle"

\* C29: a navigating node emits exactly one _new_actions entry: of its
\* success type, with selector_used and the new url, html and snippet, when
\* _try_selectors returned an outcome, and of its failure type, without a
\* selector_used and with the url left as it was, when it returned none
C29_NodesReportTheResult ==
    [][NodeReturns =>
        /\ "_new_actions" \in DOMAIN emitted'
        /\ Len(emitted'["_new_actions"]) = 1
        /\ LET action == emitted'["_new_actions"][1]
           IN  IF result # NoOutcome
               THEN /\ action.type = SuccessType[node]
                    /\ action.selector_used = result.selector
                    /\ {"url", "html", "snippet"} \subseteq DOMAIN emitted'
                    /\ emitted'["url"] = result.url
                    /\ emitted'["html"] = result.html
                    /\ emitted'["snippet"] = html_to_text(result.html)
                    /\ chan'["url"] = result.url
               ELSE /\ action.type = FailureType[node]
                    /\ "selector_used" \notin DOMAIN action
                    /\ {"url", "snippet"} \cap DOMAIN emitted' = {}
                    /\ chan'["url"] = chan["url"]]_vars

\* C29 witness: intermediate_page_node has reported a selected option and
\* the run is at a new URL
C29_OptionSelectedReported ==
    /\ node = "classify_page_node"
    /\ "_new_actions" \in DOMAIN emitted
    /\ emitted["_new_actions"][1].type = "intermediate_option_selected"
    /\ emitted["_new_actions"][1].selector_used \in Live
    /\ chan["url"] = emitted["url"]
    /\ chan["url"] # state["url"]

(***************************************************************************)
(* SelectorManager.generate_selector_from_attrs on its own: the function   *)
(* applied to every attribute dict of a bounded size over a pool of items. *)
(* A dict is the sequence of its (key, value) items in insertion order.    *)
(***************************************************************************)
MaxAttrs == 3

\* s.split()[0]: the first run of characters that are not whitespace (the
\* case of no such run, where the subscript raises, is GenerateRaises)
FirstToken(s) ==
    LET t == LStrip(s)
    IN  IF t = "" THEN ""
        ELSE SubSeq(t, 1, CHOOSE k \in 1..Len(t) :
                              /\ (k = Len(t) \/ IsSpace(SubSeq(t, k + 1, k + 1)))
                              /\ \A m \in 1..k : ~IsSpace(SubSeq(t, m, m)))

\* f"{tag}[{k}='{v}']"
TagAttr(tag, k, v) == tag \o "[" \o k \o "='" \o Str(v) \o "']"

\* the items of attrs whose key starts with data-, in the order of the dict
DataItems(attrs) == SelectSeq(attrs, LAMBDA kv : StartsWith(kv[1], "data-"))

\* attrs["class"].split()[0] raises IndexError when the class has no token
GenerateRaises(attrs) ==
    /\ ~Has(attrs, "id")
    /\ DataItems(attrs) = << >>
    /\ ~Has(attrs, "aria-label")
    /\ ~Has(attrs, "name")
    /\ Has(attrs, "class")
    /\ Strip(Get(attrs, "class", "")) = ""

\* the function with the class test moved before the data-* loop
generate_selector_class_first(tag, attrs) ==
    IF Has(attrs, "id") THEN tag \o "#" \o Str(Get(attrs, "id", None))
    ELSE IF Has(attrs, "class") THEN tag \o "." \o FirstToken(Get(attrs, "class", ""))
    ELSE IF DataItems(attrs) # << >>
         THEN TagAttr(tag, DataItems(attrs)[1][1], DataItems(attrs)[1][2])
    ELSE IF Has(attrs, "aria-label")
         THEN TagAttr(tag, "aria-label", Get(attrs, "aria-label", None))
    ELSE IF Has(attrs, "name") THEN TagAttr(tag, "name", Get(attrs, "name", None))
    ELSE IF attrs # << >> THEN TagAttr(tag, attrs[1][1], attrs[1][2])
    ELSE tag

generate_selector_from_attrs(tag, attrs) ==
    IF Has(attrs, "id") THEN tag \o "#" \o Str(Get(attrs, "id", None))
    ELSE IF DataItems(attrs) # << >>
         THEN TagAttr(tag, DataItems(attrs)[1][1], DataItems(attrs)[1][2])
    ELSE IF Has(attrs, "aria-label")
         THEN TagAttr(tag, "aria-label", Get(attrs, "aria-label", None))
    ELSE IF Has(attrs, "name") THEN TagAttr(tag, "name", Get(attrs, "name", None))
    ELSE IF Has(attrs, "class") THEN tag \o "." \o FirstToken(Get(attrs, "class", ""))
    ELSE IF attrs # << >> THEN TagAttr(tag, attrs[1][1], attrs[1][2])
    ELSE tag

Tags == {"button", "a"}

AttrItems ==
    { <<"id", "apply-now">>, <<"data-action", "apply">>, <<"data-x", "1">>,
      <<"aria-label", "Apply">>, <<"name", "go">>, <<"class", "cta">>,
      <<"class", " cta  btn">>, <<"class", " ">>, <<"href", "/apply">>,
      <<"type", "submit">> }

\* the dicts of at most MaxAttrs items: no key twice
AttrDicts ==
    UNION { { d \in [1..n -> AttrItems] :
                \A a, b \in 1..n : a # b => d[a][1] # d[b][1] } : n \in 0..MaxAttrs }

\* the state before a call generate_selector_from_attrs(tag, attrs)
GenInit ==
    /\ state = InitialState(UrlA, "")
    /\ ipc = "invoke"
    /\ invocations = 0
    /\ chan = << >>
    /\ node = "none"
    /\ selector_cache = << >>
    /\ asked = << >>
    /\ request = NoRequest
    /\ emitted = << >>
    /\ nstate = << >>
    /\ node_input = << >>
    /\ pc = "idle"
    /\ url = None
    /\ selectors = << >>
    /\ already_clicked = {}
    /\ visited_urls = {}
    /\ ranked_selectors = << >>
    /\ i = 0
    /\ sorted_selectors = << >>
    /\ j = 0
    /\ page_url = None
    /\ browser = "none"
    /\ releases = 0
    /\ result = NoOutcome
    /\ loads = 0
    /\ probes = 0
    /\ clicks = 0
    /\ start = << >>
    /\ last = NoAttempt
    /\ human_in_loop = FALSE
    /\ hops = NoHops
    /\ \E tag \in Tags, attrs \in AttrDicts :
          gen = [at |-> "called", tag |-> tag, attrs |-> attrs, selector |-> None]

\* the call returns a selector
Generate ==
    /\ gen.at = "called"
    /\ ~GenerateRaises(gen.attrs)
    /\ gen' = [gen EXCEPT !.at = "returned",
                          !.selector = generate_selector_from_attrs(gen.tag, gen.attrs)]
    /\ UNCHANGED <<run, graph, nstate, resolver, helper, emitted, human_in_loop, hops>>

\* the call raises IndexError
GenerateRaisesOut ==
    /\ gen.at = "called"
    /\ GenerateRaises(gen.attrs)
    /\ gen' = [gen EXCEPT !.at = "raised"]
    /\ UNCHANGED <<run, graph, nstate, resolver, helper, emitted, human_in_loop, hops>>

GenNext == Generate \/ GenerateRaisesOut

GenSpec == GenInit /\ [][GenNext]_vars

\* where a key stands in the priority of the claim
Priority(k) ==
    IF k = "id" THEN 1
    ELSE IF Len(k) >= 5 /\ SubSeq(k, 1, 5) = "data-" THEN 2
    ELSE IF k = "aria-label" THEN 3
    ELSE IF k = "name" THEN 4
    ELSE IF k = "class" THEN 5
    ELSE 6

\* tok is the first whitespace-delimited token of v
IsFirstToken(tok, v) ==
    \E a \in 1..Len(v), b \in 1..Len(v) :
        /\ a <= b
        /\ tok = SubSeq(v, a, b)
        /\ \A m \in 1..(a - 1) : IsSpace(SubSeq(v, m, m))
        /\ \A m \in a..b : ~IsSpace(SubSeq(v, m, m))
        /\ (b = Len(v) \/ IsSpace(SubSeq(v, b + 1, b + 1)))

\* the selector out is built on tag from the item kv the way its rank says
BuiltFrom(out, tag, kv) ==
    IF Priority(kv[1]) = 1 THEN out = tag \o "#" \o kv[2]
    ELSE IF Priority(kv[1]) = 5
         THEN \E a \in 1..Len(kv[2]), b \in 1..Len(kv[2]) :
                 /\ IsFirstToken(SubSeq(kv[2], a, b), kv[2])
                 /\ out = tag \o "." \o SubSeq(kv[2], a, b)
    ELSE out = tag \o "[" \o kv[1] \o "='" \o kv[2] \o "']"

\* C30: the returned selector is built from the attribute of the highest
\* priority: id, then the first data-* attribute, then aria-label, then name,
\* then the first token of class, then the first attribute left; it is the
\* bare tag when there are no attributes, and for {data-action, class} it is
\* built from data-action
C30_FixedPriority ==
    gen.at = "returned" =>
        LET attrs == gen.attrs
            n     == Len(attrs)
        IN  /\ n = 0 => gen.selector = gen.tag
            /\ n > 0 =>
                 \E c \in 1..n :
                    /\ \A m \in 1..n :
                          \/ Priority(attrs[m][1]) > Priority(attrs[c][1])
                          \/ (Priority(attrs[m][1]) = Priority(attrs[c][1]) /\ m >= c)
                    /\ BuiltFrom(gen.selector, gen.tag, attrs[c])
            /\ (Keys(attrs) = {"data-action", "class"}) =>
                 gen.selector = gen.tag \o "[data-action='apply']"

\* C30 witness: the call of the test, a button with data-action and class,
\* returned the data-action selector; the class comes first in the dict
C30_TestCallReturned ==
    /\ gen.at = "returned"
    /\ gen.tag = "button"
    /\ gen.attrs = << <<"class", "cta">>, <<"data-action", "apply">> >>
    /\ gen.selector = "button[data-action='apply']"

(***************************************************************************)
(* The loop of invoke_start                                                *)
(***************************************************************************)
\* C25: invoke_start eventually returns whatever the pages and the
\* classifier do. The loop "while True" has no bound of its own, so it can
\* only end if every pass that goes on to another pass has changed what the
\* next pass starts from: the run's state dict (the selector cache, the one
\* other thing that outlives a pass, being as empty as it was). A pass that
\* continues from the state it started with can be repeated without end.
C25_EveryPassMakesProgress ==
    [][(ipc = "graph" /\ ipc' = "invoke" /\ selector_cache = << >>) =>
          state' # state]_vars

(***************************************************************************)
(* The resolver as a state machine                                         *)
(***************************************************************************)
\* the state of the machine a position of _try_selectors stands for; a call
\* that returned at its entry checks never left Idle
Phase ==
    CASE pc \in {"idle", "entry"}             -> "Idle"
      [] pc \in {"launch", "load", "fallback"} -> "PageLoading"
      [] pc = "rank"                           -> "PageLoaded"
      [] pc \in {"expand", "attempt"}          -> "CandidateIteration"
      [] pc = "raised"                         -> "Raised"
      [] pc \in {"returned", "cleaned"}        ->
           IF loads = 0 THEN "Idle"
           ELSE IF result # NoOutcome THEN "NavigationDetected"
           ELSE IF BothLoadsFailed THEN "PageLoadFailed"
           ELSE IF i > Len(ranked_selectors) THEN "CandidatesExhausted"
           ELSE "Returned"

\* the terminal states of the machine
Terminals == {"PageLoadFailed", "NavigationDetected", "CandidatesExhausted"}

\* the transitions of the machine; the last line is the caller taking the
\* result of a call that ended
Transitions ==
    { <<"Idle", "Idle">>, <<"Idle", "PageLoading">>,
      <<"PageLoading", "PageLoading">>, <<"PageLoading", "PageLoadFailed">>,
      <<"PageLoading", "PageLoaded">>, <<"PageLoaded", "CandidateIteration">>,
      <<"CandidateIteration", "CandidateIteration">>,
      <<"CandidateIteration", "NavigationDetected">>,
      <<"CandidateIteration", "CandidatesExhausted">> }
      \cup {<<t, t>> : t \in Terminals} \cup {<<t, "Idle">> : t \in Terminals}

\* the step taken is a transition of the machine
Moves == <<Phase, Phase'>> \in Transitions

\* C26: a call past its entry checks goes from Idle to PageLoading, from
\* there to PageLoadFailed or by PageLoaded to CandidateIteration, and ends
\* in exactly one of PageLoadFailed (no outcome), NavigationDetected
\* (outcome) and CandidatesExhausted (no outcome): it takes no other
\* transition and ends in no other way
C26_ResolverStateMachine ==
    /\ [][Moves]_vars
    /\ []((Over /\ loads > 0) => Phase \in Terminals)

\* the expanded set of the candidate under trial in the order the synthesis
\* built it: its own strategies, then what the helper returned for its text
Expansion ==
    element_selectors(Current, IF Truthy(Get(Current, "text", ""))
                               THEN request.result ELSE << >>)

\* list is in non-increasing score order, and two members of equal score
\* stand as two members of origin do
RankedFrom(list, origin) ==
    LET n == Len(list)
    IN  /\ Len(origin) = n
        /\ \E sc \in {[k \in 1..n |-> score(list[k])]} :
              \A a \in 1..n : \A b \in (a + 1)..n :
                  \/ sc[a] > sc[b]
                  \/ /\ sc[a] = sc[b]
                     /\ \E p \in 1..n : \E q \in (p + 1)..n :
                           origin[p] = list[a] /\ origin[q] = list[b]

\* a step of the loops of one call
InLoops == pc \in {"expand", "attempt"} /\ pc' \in {"expand", "attempt", "returned"}

\* C31: the candidates are ranked once and taken in that order, one after the
\* other and never back; the strategies of one candidate are ranked when its
\* turn starts, in non-increasing score order with ties in synthesis order,
\* and are probed one at a time in that order
C31_TwoLevelTryOrder ==
    /\ [](pc = "expand" /\ i = 1 => RankedFrom(ranked_selectors, selectors))
    /\ [](pc = "attempt" /\ j = 1 => RankedFrom(sorted_selectors, Expansion))
    /\ [][InLoops =>
            /\ ranked_selectors' = ranked_selectors
            /\ i' \in {i, i + 1}
            /\ (i' = i + 1 <=> (pc = "attempt" /\ j > Len(sorted_selectors)))
            /\ (pc = "attempt" /\ pc' = "attempt" =>
                    sorted_selectors' = sorted_selectors /\ j' = j + 1)]_vars
    /\ [][probes' > probes =>
            /\ Trying
            /\ probes' = probes + 1
            /\ last'.sel = sel]_vars

\* C31 witness: the second candidate is under trial after every strategy of
\* the first was passed, and a strategy of it that ties with the one before
\* it has been probed
C31_SecondCandidateProbedInOrder ==
    /\ pc = "attempt"
    /\ i = 2
    /\ j > 2
    /\ j <= Len(sorted_selectors) + 1
    /\ probes > Len(sorted_selectors)
    /\ last.sel = Get(sorted_selectors[j - 1], "selector", None)
    /\ last.kind = "probe_failed"
    /\ score(sorted_selectors[j - 1]) = score(sorted_selectors[j - 2])
    /\ sorted_selectors[j - 1] # sorted_selectors[j - 2]

\* the page is loaded and the call is about to rank its candidates: nothing
\* of the loops has happened yet
ReadyToIterate ==
    /\ page_url # None
    /\ browser = "open"
    /\ releases = 0
    /\ result = NoOutcome
    /\ ranked_selectors = << >>
    /\ sorted_selectors = << >>
    /\ probes = 0
    /\ clicks = 0
    /\ last = NoAttempt

\* C32: the DOM-content-loaded load is attempted exactly when the
\* network-idle load failed, at most once per call, and after its success
\* the call is where a successful network-idle load leaves it and goes on to
\* the same ranking of the same candidates
C32_FallbackLoad ==
    /\ [](loads <= 2)
    /\ [](pc = "fallback" => loads = 1 /\ page_url = None)
    /\ [](pc = "rank" => ReadyToIterate)
    /\ [][pc = "load" =>
            /\ loads' = 1
            /\ \/ pc' = "rank" /\ page_url' # None
               \/ pc' = "fallback" /\ page_url' = None]_vars
    /\ [][pc = "fallback" =>
            /\ loads' = 2
            /\ \/ pc' = "rank" /\ page_url' # None
               \/ pc' = "returned" /\ result' = NoOutcome]_vars
    /\ [][loads' > loads => pc = (IF loads = 0 THEN "load" ELSE "fallback")]_vars
    /\ [][(pc = "rank" /\ pc' = "expand") =>
            /\ ranked_selectors' = rank_selectors(selectors)
            /\ i' = 1
            /\ <<url, selectors, already_clicked, visited_urls, page_url, nstate>>'
                  = <<url, selectors, already_clicked, visited_urls, page_url, nstate>>]_vars

\* C32 witness: the network-idle load failed, the fallback load succeeded and
\* the call is probing the strategies of a candidate
C32_ProbingAfterFallback ==
    /\ pc = "attempt"
    /\ loads = 2
    /\ probes > 0
    /\ page_url # None

\* C34: the href of an element is resolved against the URL the page is at
\* when the element is examined, and the element is passed over as visited
\* exactly when that resolved URL is in visited_urls
C34_HrefResolvedInCurrentPage ==
    (last.found /\ Truthy(last.href)) =>
        /\ last.full_href = last.target
        /\ (last.kind = "skip_visited" <=> last.target \in visited_urls)

\* the attributes the synthesis builds a selector from: test ids,
\* accessibility, form identity and any data-* attribute
Recognized(attr) ==
    \/ attr \in {"data-testid", "data-test", "data-qa"}
    \/ attr \in {"aria-label", "role", "title"}
    \/ attr \in {"name", "for", "placeholder"}
    \/ StartsWith(attr, "data-")

\* how many strategies of the candidate under trial have the selector s
Occurrences(s) ==
    Cardinality({m \in 1..Len(sorted_selectors) :
                    Get(sorted_selectors[m], "selector", None) = s})

\* C35: every recognized attribute of the candidate under trial yields
\* exactly one strategy [attr="value"], and no selector string is in the
\* expanded set twice
C35_OneSelectorPerAttribute ==
    pc = "attempt" =>
        /\ \A k \in 1..Len(Current) :
              Recognized(Current[k][1]) =>
                  Occurrences(AttrSelector(Current[k][1], Current[k][2])) = 1
        /\ \A m \in 1..Len(sorted_selectors) :
              Occurrences(Get(sorted_selectors[m], "selector", None)) = 1

\* in the latest attempt of the call element.click() returned and page.url
\* is not what it was before the click
ClickNavigated == last.clicked /\ last.kind # "click_failed" /\ last.post # last.pre

\* C38: once a click of a call has changed the page URL the call probes and
\* clicks no further selector, and that click is the one the outcome reports
\* and the session records
C38_OneNavigatingClick ==
    /\ [][ClickNavigated => probes' <= probes /\ clicks' <= clicks]_vars
    /\ []((ClickNavigated /\ Back) =>
            /\ result # NoOutcome
            /\ result.selector = last.sel
            /\ result.url = last.post
            /\ last.sel \in Clicked(nstate)
            /\ last.post \in Visited(nstate))

\* the wait after the latest click timed out
WaitTimedOut == last.clicked /\ last.wait = "timeout"

\* C33: after a timeout of the wait that follows a click the URL after the
\* click is still compared with the URL before it: when they differ (and the
\* new content is read) the call returns the outcome of that click and the
\* session holds it, when they are equal the loop goes on
C33_WaitTimeoutIsNoFailure ==
    WaitTimedOut =>
        /\ last.kind \in {"navigated", "no_navigation", "content_failed"}
        /\ last.kind = "no_navigation" <=> last.post = last.pre
        /\ last.kind = "navigated" =>
              /\ Back
              /\ result # NoOutcome
              /\ result.url = last.post
              /\ result.selector = last.sel
              /\ last.sel \in Clicked(nstate)
              /\ last.post \in Visited(nstate)
              /\ GetK(nstate, "current_url", None) = last.post

\* C33 witness: the wait after a click timed out, the URL had changed, and
\* the call returned the outcome of that click
C33_OutcomeAfterWaitTimeout ==
    /\ pc = "returned"
    /\ WaitTimedOut
    /\ last.post # last.pre
    /\ result # NoOutcome
    /\ result.url = last.post

\* the step in which classify_page_node returns
ClassifyReturns == Running("classify_page_node") /\ node' # "classify_page_node"

\* C37: classify_page_node returns a classification that is intermediate or
\* form: the page_type of the LLM result when it is one of the two, and
\* intermediate when it is missing or anything else; the LLM result is
\* returned as it came under classification_llm
C37_ClassificationNormalised ==
    /\ []("classification" \in DOMAIN chan =>
              chan["classification"] \in {"intermediate", "form"})
    /\ [][ClassifyReturns =>
            /\ DOMAIN emitted' = {"classification", "classification_llm"}
            /\ emitted'["classification_llm"] \in ClassifierAnswers
            /\ LET page_type == GetK(emitted'["classification_llm"], "page_type", None)
               IN  emitted'["classification"]
                      = IF page_type \in {"intermediate", "form"} THEN page_type
                        ELSE "intermediate"
            /\ emitted'["classification"] \in {"intermediate", "form"}
            /\ chan'["classification"] = emitted'["classification"]]_vars

\* C37 witness: the LLM result had no page_type, the node returned intermediate
\* with the result kept beside it, and the run went on to intermediate_page_node
C37_MissingPageTypeDefaulted ==
    /\ Running("intermediate_page_node")
    /\ pc = "idle"
    /\ "classification_llm" \in DOMAIN emitted
    /\ emitted["classification_llm"] = [choice_options_found |-> TRUE]
    /\ emitted["classification"] = "intermediate"

\* C36: classify_page_node routes to end_node once intermediate_visits is at
\* least 2, and intermediate_page_node is executed at most twice in one
\* invocation of the graph
C36_HopCap ==
    /\ [][(ClassifyReturns /\ GetK(chan', "intermediate_visits", 0) >= 2) =>
            node' = "end_node"]_vars
    /\ [](hops.executed <= 2)

\* the intermediate_visits counter of the run: in the channels while the
\* graph runs, in invoke_start's state dict between invocations
VisitsCounter == GetK(IF ipc = "graph" THEN chan ELSE state, "intermediate_visits", 0)

\* C39: as long as the run has not ended in an exception the
\* intermediate_visits counter equals the number of selection attempts
\* intermediate_page_node has completed in the run
C39_CounterCountsAttempts == ipc # "raised" => VisitsCounter = hops.attempts

\* intermediate_page_node is about to show the options of the page the graph
\* is at and to ask the user for a choice
Prompting == Running("intermediate_page_node") /\ human_in_loop /\ pc = "idle"

\* the step in which the user answers q or gives no valid choice
Declined == Prompting /\ node' = "classify_page_node"

\* C40: after the user answered q or gave an invalid choice no call of
\* _try_selectors is made for that answer, and the user is not asked again
\* about the page the answer was given on
C40_CancelEndsTheInteraction ==
    /\ [][Declined =>
            /\ pc' = "idle"
            /\ browser' = "none"
            /\ clicks' = 0
            /\ "_new_actions" \in DOMAIN emitted'
            /\ emitted'["_new_actions"][1].type
                  \in {"human_cancelled", "human_choice_invalid"}]_vars
    /\ [](Prompting => hops.declined # GetK(chan, "url", None))

====
